---- MODULE Spec2Model ----
(***************************************************************************)
(* Listing ingestion and search-indexing pipeline of the printing          *)
(* marketplace: the gateway's idempotency middleware, listing service and  *)
(* upload authorizer, and the listings-worker's index handler.             *)
(*                                                                         *)
(* The module holds several specifications over one set of variables; each *)
(* specification moves only the variables of its component and leaves the  *)
(* others at their initial value.                                          *)
(*   SpecIdem   idempotency middleware over the Redis-backed store         *)
(*   SpecKey    upload authorizer (PresignUpload) and the ownership check  *)
(*   SpecCreate createListing: validation, transaction, event publishing   *)
(*   SpecIndex  listings-worker index handler over the bus, with failures  *)
(*   SpecRead   getListing, updateListing, deleteListing, cache, re-index  *)
(***************************************************************************)
EXTENDS Integers, Sequences, FiniteSets, TLC

VARIABLES
    \* ---- idempotency middleware (one Idempotency-Key) ----
    lock,        \* Redis key {key}:lock exists
    data,        \* Redis key {key}:data: NoData or the stored response
    ipc,         \* position of each request in the middleware
    irec,        \* responseRecorder of each request (status, headers, body)
    ireply,      \* what the client of each request received
    holders,     \* history: requests between acquiring the lock and the end of their store calls
    runCount,    \* history: number of times the wrapped handler was entered
    rowCount,    \* rows the wrapped handler has inserted (one per 201 run)
    ttlExpired,  \* history: the lock key expired at least once
    dataExpired, \* history: the data key expired at least once
    startData,   \* history: data key as it was when the request arrived
    rbOpen,      \* history: requests whose run ended with a rollback status, no lock taken since
    afterRb,     \* history: requests whose SETNX ran while rbOpen held a finished rollback
    \* ---- upload authorizer ----
    grant,       \* outcome of the latest PresignUpload call
    asm,         \* read assembler: a file entry of a listing row, the configuration and the entry built
    \* ---- database ----
    listings,    \* listings table: row per listing id (NoRow: no such row)
    files,       \* listing_files table: set of committed file rows
    \* ---- createListing (one call in flight) ----
    cpc,             \* position of the call
    cuser,           \* userInfo.ID of the caller
    creq,            \* the validated request
    cidx,            \* loop index of the file loop, then of the publish loop
    txListing,       \* listing row written inside the open transaction
    txFiles,         \* file rows written inside the open transaction
    eventsToPublish, \* the local slice eventsToPublish
    cres,            \* result of the call: NONE, OK, INVALID_INPUT, INTERNAL, PANIC
    cfailAt,         \* history: the database or bus call that failed
    cforeign,        \* history: the request held a path the caller does not own
    csnap,           \* history: tables and bus as they were when the call began
    posted,          \* history: file paths posted with each committed listing
    busStart,        \* StartFileValidation messages accepted by the bus
    \* ---- collaborators' health ----
    dbUp,        \* the database answers
    searchUp,    \* the search engine answers
    \* ---- listings-worker: index subject and the handler invocation of each worker ----
    stream,      \* index messages published and not yet acked
    searchIndex, \* search collection: document per listing id (NoDoc: none)
    xpc,         \* position of the handler invocation
    xmsg,        \* the message being handled
    xdoc,        \* the document composed for the upsert
    xerr,        \* the handler returned an error
    xupsert,     \* history: this invocation called Upsert
    xres,        \* history: what GetListingByID returned to this invocation
    xsearch,     \* history: outcome of the invocation's Upsert
    xmark,       \* history: outcome of the invocation's MarkListingAsIndexed
    xhealthy,    \* history: database and search engine were up during the whole invocation
    xsawDel,     \* history: the listing had been deleted successfully before the invocation began
    xexpired,    \* the deadline of the bus callback's context has passed during the invocation
    xlast,       \* history: the latest reply of the worker's bus callback (message, handler error, call)
    \* ---- gateway read and write paths ----
    cache,       \* Redis keys listing:{id}
    gpc,         \* position of each getListing request
    gid,         \* its listing id string
    gres,        \* the response it returned
    gminVer,     \* history: newest version written by an update that had returned when it began
    gsawDel,     \* history: the listing had been deleted successfully when it began
    gcachedVer,  \* history: version inside the cache entry its cache.Get read (-1: none)
    upc,         \* position of the updateListing request
    uuser,       \* its caller
    ureq,        \* its patch, from the moment the patch has been applied to the fetched row
    uid,         \* its listing id string
    ulisting,    \* the fetched listing with the patch applied
    ures,        \* its result
    dres,        \* the latest deleteListing: its answer, its caller, its id, whether the database answered
    deletedOK,   \* history: a deleteListing of the listing has succeeded
    lres,        \* result of the latest getListingsFor
    returnedVer, \* history: newest version written by an update that has returned
    \* ---- getListing over time ----
    now,         \* the time, in quarters of an hour
    tcache,      \* the listing:{id} key of one listing: its bytes and when they were set
    tasync,      \* the cache-filling goroutine of GetListingByID and the response it holds
    served,      \* the latest getListing response and when it was served
    \* ---- the web UI's publish flow for one draft ----
    draftId,     \* the draft id the UI holds, sent as Idempotency-Key
    awaited,     \* the request the pending mutation waits for (0: none, isPending is false)
    published,   \* onSuccess has run: the draft is cleared
    preq,        \* the POST /listings requests sent for the draft
    klock,       \* the keys whose {key}:lock is set
    kdata,       \* the keys whose {key}:data holds a response
    created,     \* the requests whose handler has committed a listing
    nops         \* operations started so far

idemVars == <<lock, data, ipc, irec, ireply, holders, runCount, rowCount,
              ttlExpired, dataExpired, startData, rbOpen, afterRb>>

serveVars == <<now, tcache, tasync, served>>

publishVars == <<draftId, awaited, published, preq, klock, kdata, created>>

keyVars == <<grant, asm, serveVars, publishVars>>

dbVars == <<listings, files>>

createVars == <<cpc, cuser, creq, cidx, txListing, txFiles, eventsToPublish, cres,
                cfailAt, cforeign, csnap, posted, busStart>>

healthVars == <<dbUp, searchUp>>

xlocalVars == <<xpc, xmsg, xdoc, xerr, xupsert, xres, xsearch, xmark, xhealthy, xsawDel,
                xexpired, xlast>>

indexVars == <<stream, searchIndex, xlocalVars>>

getVars == <<gpc, gid, gres, gminVer, gsawDel, gcachedVer>>

updVars == <<upc, uuser, ureq, uid, ulisting, ures>>

readVars == <<cache, getVars, updVars, dres, deletedOK, lres, returnedVer>>

listingVars == <<dbVars, createVars, healthVars, indexVars, readVars, nops>>

nonIdemVars == <<keyVars, listingVars>>

nonKeyVars == <<idemVars, listingVars>>

nonCreateVars == <<idemVars, keyVars, healthVars, indexVars, readVars, nops>>

vars == <<idemVars, keyVars, listingVars>>

-----------------------------------------------------------------------------
(* Bounds *)

NReq == 3          \* concurrent requests carrying the same Idempotency-Key
MaxDraftSegs == 3  \* '/'-separated segments of a draft_id string
MaxListings == 1   \* listings createListing may commit
MaxOps == 3        \* gateway read/write calls and index deliveries started in a run

-----------------------------------------------------------------------------
(* Idempotency middleware: src/unnamed/part_024, idempotency/store.go *)

Reqs == 1..NReq

NoData == [status |-> 0, hdrs |-> {}, body |-> 0]

StatusCreated == 201
StatusUnauthorized == 401
StatusConflict == 409
StatusTooManyRequests == 429
StatusInternalServerError == 500

\* Statuses the wrapped handler writes: one that is saved, and the two kinds
\* that are rolled back.
HandlerStatuses == {StatusCreated, StatusTooManyRequests, StatusInternalServerError}

\* The user the bearer token of a request verifies as ("": the request carries
\* no valid token).  Every request carries the same Idempotency-Key: a call of
\* u1, a retry of it, a request without a valid token, and calls of u2.
Bearer(r) ==
    CASE r \in {1, 2} -> "u1"
      [] r = 3 -> ""
      [] OTHER -> "u2"

\* The wrapped handler starts with Authenticator.Middleware, which answers 401
\* to a request without a valid token and lets no such request through.
HandlerStatusesOf(r) ==
    IF Bearer(r) = "" THEN {StatusUnauthorized} ELSE HandlerStatuses

\* Headers present on the recorder's header map when the handler has returned:
\* those of the CORS middleware in front, and the handler's own.
HandlerHeaders == {"Access-Control-Allow-Origin", "Vary", "Content-Type"}

ignoredHeaders == {"Access-Control-Allow-Origin", "Access-Control-Allow-Methods",
                   "Access-Control-Allow-Headers", "Access-Control-Allow-Credentials",
                   "Access-Control-Expose-Headers", "Date", "Content-Length",
                   "Connection"}

\* Mutant: the 5xx test written with > instead of >=.
IsRollbackStatus_Strict(s) == s > StatusInternalServerError \/ s = StatusTooManyRequests

\* The branch taken at part_024:101.
IsRollbackStatus(s) == s >= StatusInternalServerError \/ s = StatusTooManyRequests

\* cleanHeaders of the detached save.
CleanHeaders(h) == h \ ignoredHeaders

\* Headers the replay branch writes from a stored response.
ReplayHeaders(stored) == (stored \ ignoredHeaders) \cup {"X-Idempotency-Hit"}

NoReply == [kind |-> "none", status |-> 0, hdrs |-> {}, body |-> 0]

InitIdem ==
    /\ lock = FALSE
    /\ data = NoData
    /\ ipc = [r \in Reqs |-> "idle"]
    /\ irec = [r \in Reqs |-> NoData]
    /\ ireply = [r \in Reqs |-> NoReply]
    /\ holders = {}
    /\ runCount = 0
    /\ rowCount = 0
    /\ ttlExpired = FALSE
    /\ dataExpired = FALSE
    /\ startData = [r \in Reqs |-> NoData]
    /\ rbOpen = {}
    /\ afterRb = {}

\* A request with the Idempotency-Key header reaches the middleware.
Arrive(r) ==
    /\ UNCHANGED nonIdemVars
    /\ ipc[r] = "idle"
    /\ ipc' = [ipc EXCEPT ![r] = "lockGet"]
    /\ startData' = [startData EXCEPT ![r] = data]
    /\ UNCHANGED <<lock, data, irec, ireply, holders, runCount, rowCount,
                   ttlExpired, dataExpired, rbOpen, afterRb>>

\* Store.Lock, step 1: GetResponse; a stored response makes Lock answer false.
LockGet(r) ==
    /\ UNCHANGED nonIdemVars
    /\ ipc[r] = "lockGet"
    /\ ipc' = [ipc EXCEPT ![r] = IF data # NoData THEN "notAcquired" ELSE "lockSetNX"]
    /\ UNCHANGED <<lock, data, irec, ireply, holders, runCount, rowCount,
                   ttlExpired, dataExpired, startData, rbOpen, afterRb>>

\* Store.Lock, step 2: SETNX on {key}:lock.
LockSetNX(r) ==
    /\ UNCHANGED nonIdemVars
    /\ ipc[r] = "lockSetNX"
    /\ IF lock
          THEN /\ ipc' = [ipc EXCEPT ![r] = "notAcquired"]
               /\ UNCHANGED <<lock, holders, rbOpen>>
          ELSE /\ lock' = TRUE
               /\ ipc' = [ipc EXCEPT ![r] = "handler"]
               /\ holders' = holders \cup {r}
               /\ rbOpen' = {}
    /\ afterRb' = IF \E q \in rbOpen : ipc[q] = "done" THEN afterRb \cup {r} ELSE afterRb
    /\ UNCHANGED <<data, irec, ireply, runCount, rowCount, ttlExpired,
                   dataExpired, startData>>

\* Branch B (lock not acquired): replay the stored response, or 409 with Retry-After.
NotAcquired(r) ==
    /\ UNCHANGED nonIdemVars
    /\ ipc[r] = "notAcquired"
    /\ ireply' = [ireply EXCEPT ![r] =
                    IF data # NoData
                       THEN [kind |-> "replay", status |-> data.status,
                             hdrs |-> ReplayHeaders(data.hdrs), body |-> data.body]
                       ELSE [kind |-> "conflict", status |-> StatusConflict,
                             hdrs |-> {"Retry-After", "Content-Type"}, body |-> 0]]
    /\ ipc' = [ipc EXCEPT ![r] = "done"]
    /\ UNCHANGED <<lock, data, irec, holders, runCount, rowCount, ttlExpired,
                   dataExpired, startData, rbOpen, afterRb>>

\* Branch C: next.ServeHTTP(recorder, r) returns having written status s.
\* The body names the run that produced it; a 201 run has inserted a row.
HandlerReturn(r, s) ==
    /\ UNCHANGED nonIdemVars
    /\ ipc[r] = "handler"
    /\ s \in HandlerStatusesOf(r)
    /\ irec' = [irec EXCEPT ![r] = [status |-> s, hdrs |-> HandlerHeaders, body |-> r]]
    /\ ireply' = [ireply EXCEPT ![r] = [kind |-> "run", status |-> s,
                                        hdrs |-> HandlerHeaders, body |-> r]]
    /\ runCount' = runCount + 1
    /\ rowCount' = IF s = StatusCreated THEN rowCount + 1 ELSE rowCount
    /\ ipc' = [ipc EXCEPT ![r] = IF IsRollbackStatus(s) THEN "delLock" ELSE "save"]
    /\ rbOpen' = IF (s >= 500 \/ s = 429) /\ holders = {r} /\ lock
                    THEN rbOpen \cup {r} ELSE rbOpen
    /\ UNCHANGED <<lock, data, holders, ttlExpired, dataExpired, startData, afterRb>>

\* The wrapped handler panics: the panic unwinds through the middleware to
\* chi's Recoverer in front of it, which answers 500; no store call is made.
HandlerPanic(r) ==
    /\ UNCHANGED nonIdemVars
    /\ ipc[r] = "handler"
    /\ ireply' = [ireply EXCEPT ![r] = [kind |-> "panic", status |-> StatusInternalServerError,
                                        hdrs |-> {}, body |-> 0]]
    /\ runCount' = runCount + 1
    /\ ipc' = [ipc EXCEPT ![r] = "done"]
    /\ holders' = holders \ {r}
    /\ UNCHANGED <<lock, data, irec, rowCount, ttlExpired, dataExpired,
                   startData, rbOpen, afterRb>>

\* Store.Delete, first call: DEL {key}:lock.
RollbackDelLock(r) ==
    /\ UNCHANGED nonIdemVars
    /\ ipc[r] = "delLock"
    /\ lock' = FALSE
    /\ ipc' = [ipc EXCEPT ![r] = "delData"]
    /\ UNCHANGED <<data, irec, ireply, holders, runCount, rowCount, ttlExpired,
                   dataExpired, startData, rbOpen, afterRb>>

\* Store.Delete, second call: DEL {key}:data.
RollbackDelData(r) ==
    /\ UNCHANGED nonIdemVars
    /\ ipc[r] = "delData"
    /\ data' = NoData
    /\ ipc' = [ipc EXCEPT ![r] = "done"]
    /\ holders' = holders \ {r}
    /\ UNCHANGED <<lock, irec, ireply, runCount, rowCount, ttlExpired,
                   dataExpired, startData, rbOpen, afterRb>>

\* Detached goroutine, Store.SaveResponse step 1: SET {key}:data with the data TTL.
SaveSetData(r) ==
    /\ UNCHANGED nonIdemVars
    /\ ipc[r] = "save"
    /\ data' = [status |-> irec[r].status, hdrs |-> CleanHeaders(irec[r].hdrs),
                body |-> irec[r].body]
    /\ ipc' = [ipc EXCEPT ![r] = "saveDelLock"]
    /\ UNCHANGED <<lock, irec, ireply, holders, runCount, rowCount, ttlExpired,
                   dataExpired, startData, rbOpen, afterRb>>

\* Store.SaveResponse step 1 fails (cache error or the 5 s save timeout):
\* the error is logged and the lock key is left to its TTL.
SaveFail(r) ==
    /\ UNCHANGED nonIdemVars
    /\ ipc[r] = "save"
    /\ ipc' = [ipc EXCEPT ![r] = "done"]
    /\ holders' = holders \ {r}
    /\ UNCHANGED <<lock, data, irec, ireply, runCount, rowCount, ttlExpired,
                   dataExpired, startData, rbOpen, afterRb>>

\* Store.SaveResponse step 2: DEL {key}:lock.
SaveDelLock(r) ==
    /\ UNCHANGED nonIdemVars
    /\ ipc[r] = "saveDelLock"
    /\ lock' = FALSE
    /\ ipc' = [ipc EXCEPT ![r] = "done"]
    /\ holders' = holders \ {r}
    /\ UNCHANGED <<data, irec, ireply, runCount, rowCount, ttlExpired,
                   dataExpired, startData, rbOpen, afterRb>>

\* Redis expires {key}:lock after lockTTL.
LockExpire ==
    /\ UNCHANGED nonIdemVars
    /\ lock
    /\ lock' = FALSE
    /\ ttlExpired' = TRUE
    /\ UNCHANGED <<data, ipc, irec, ireply, holders, runCount, rowCount,
                   dataExpired, startData, rbOpen, afterRb>>

\* Redis expires {key}:data after dataTTL.
DataExpire ==
    /\ UNCHANGED nonIdemVars
    /\ data # NoData
    /\ data' = NoData
    /\ dataExpired' = TRUE
    /\ UNCHANGED <<lock, ipc, irec, ireply, holders, runCount, rowCount,
                   ttlExpired, startData, rbOpen, afterRb>>

NextIdem ==
    \/ \E r \in Reqs : Arrive(r)
    \/ \E r \in Reqs : LockGet(r)
    \/ \E r \in Reqs : LockSetNX(r)
    \/ \E r \in Reqs : NotAcquired(r)
    \/ \E r \in Reqs, s \in HandlerStatuses \cup {StatusUnauthorized} : HandlerReturn(r, s)
    \/ \E r \in Reqs : HandlerPanic(r)
    \/ \E r \in Reqs : RollbackDelLock(r)
    \/ \E r \in Reqs : RollbackDelData(r)
    \/ \E r \in Reqs : SaveSetData(r)
    \/ \E r \in Reqs : SaveFail(r)
    \/ \E r \in Reqs : SaveDelLock(r)
    \/ LockExpire
    \/ DataExpire


-----------------------------------------------------------------------------
(* Strings that are paths are modelled by their split on "/": a non-empty    *)
(* sequence of slash-free segments ("" is <<"">>, "a//b" is <<"a","","b">>). *)

Users == {"u1", "u2"}

SeqsUpTo(S, n) == UNION {[1..k -> S] : k \in 1..n}

RECURSIVE CleanFrom(_, _, _, _)
CleanFrom(segs, i, out, rooted) ==
    IF i > Len(segs) THEN out
    ELSE LET sg == segs[i] IN
         IF sg = "" \/ sg = "." THEN CleanFrom(segs, i + 1, out, rooted)
         ELSE IF sg = ".."
              THEN IF Len(out) > 0 /\ out[Len(out)] # ".."
                      THEN CleanFrom(segs, i + 1, SubSeq(out, 1, Len(out) - 1), rooted)
                      ELSE IF rooted THEN CleanFrom(segs, i + 1, out, rooted)
                           ELSE CleanFrom(segs, i + 1, Append(out, ".."), rooted)
              ELSE CleanFrom(segs, i + 1, Append(out, sg), rooted)

\* path.Clean: drops empty and "." elements, resolves "..".
PathClean(p) ==
    LET rooted == Len(p) > 1 /\ p[1] = ""
        out == CleanFrom(p, 1, <<>>, rooted)
    IN  IF rooted THEN (IF out = <<>> THEN <<"", "">> ELSE <<"">> \o out)
        ELSE IF out = <<>> THEN <<".">> ELSE out

RECURSIVE ConcatNonEmpty(_)
ConcatNonEmpty(elems) ==
    IF elems = <<>> THEN <<>>
    ELSE (IF Head(elems) = <<"">> THEN <<>> ELSE Head(elems)) \o ConcatNonEmpty(Tail(elems))

\* path.Join: ignores empty elements, joins the rest with "/" and cleans.
PathJoin(elems) ==
    LET joined == ConcatNonEmpty(elems)
    IN  IF joined = <<>> THEN <<"">> ELSE PathClean(joined)

\* Mutant: the owner taken from the segment after the date and the user id.
checkUserOwnsFile_WrongIndex(userID, filePath) ==
    IF Len(filePath) < 6 THEN FALSE ELSE filePath[5] = userID

\* listings/service.go checkUserOwnsFile: strings.SplitN(filePath, "/", 6).
checkUserOwnsFile(userID, filePath) ==
    IF Len(filePath) < 6 THEN FALSE ELSE filePath[4] = userID

-----------------------------------------------------------------------------
(* Upload authorizer: handlers/files/service.go *)

FileKinds == {"image", "model", "video"}

constraints ==
    [image |-> [AllowedMimeTypes |-> {"image/jpeg", "image/png", "image/gif"},
                Prefix |-> <<"images", "">>],
     model |-> [AllowedMimeTypes |-> {"application/vnd.ms-pki.stl", "application/octet-stream",
                                      "application/vnd.ms-pki.3mf", "model/stl"},
                Prefix |-> <<"models", "">>]]

Filenames == {"dragon.stl", "Part.STL", "photo.png", "README"}

\* filepath.Ext on the filenames above.
FileExt(f) ==
    CASE f = "dragon.stl" -> ".stl"
      [] f = "Part.STL"   -> ".STL"
      [] f = "photo.png"  -> ".png"
      [] OTHER            -> ""

\* strings.ToLower on the extensions above.
ToLowerExt(e) == IF e = ".STL" THEN ".stl" ELSE e

fileExtensionMappings ==
    [e \in {".stl", ".3mf", ".obj"} |->
        CASE e = ".stl" -> "model/stl"
          [] e = ".3mf" -> "model/3mf"
          [] OTHER      -> "application/octet-stream"]

ContentTypes == {"", "image/png", "model/stl", "text/html"}

\* generateFilenameHash(filename) + ext: one slash-free segment.
HashedName(filename, ext) == "sha256(" \o filename \o ")" \o ext

\* time.Now() formatted as %d/%02d/%02d.
datePrefix == <<"2025", "12", "12">>

\* generateStorageKey
generateStorageKey(userID, draftID, filename, prefix, ext) ==
    PathJoin(<<datePrefix, <<userID>>, draftID, prefix, <<HashedName(filename, ext)>>>>)

\* draft_id strings of the request body, as segment sequences.
DraftSegs == {"d1", "u2", "..", ".", ""}
DraftIds == SeqsUpTo(DraftSegs, MaxDraftSegs)

PresignRequests ==
    [Type : FileKinds, Filename : Filenames, ContentType : ContentTypes, DraftId : DraftIds]

NoGrant == [user |-> "", code |-> "NONE", key |-> <<"">>, contentType |-> "",
            draftId |-> <<"">>, kind |-> ""]

\* service.PresignUpload
PresignUpload(userID, req) ==
    LET rejected == [user |-> userID, code |-> "INVALID_INPUT", key |-> <<"">>,
                     contentType |-> "", draftId |-> req.DraftId, kind |-> req.Type]
    IN
    IF req.Type \notin DOMAIN constraints THEN rejected
    ELSE
    LET c == constraints[req.Type]
        extension == FileExt(req.Filename)
        mimeType ==
            IF req.ContentType # "" THEN req.ContentType
            ELSE IF extension \in DOMAIN fileExtensionMappings
                    THEN fileExtensionMappings[extension]
                    ELSE IF extension # "" /\ req.Type = "model"
                            THEN "application/octet-stream" ELSE ""
        ext == ToLowerExt(extension)
    IN
    IF mimeType \notin c.AllowedMimeTypes THEN rejected
    ELSE IF ext = "" THEN rejected
    ELSE [user |-> userID, code |-> "OK",
          key |-> generateStorageKey(userID, req.DraftId, req.Filename, c.Prefix, ext),
          contentType |-> mimeType, draftId |-> req.DraftId, kind |-> req.Type]

\* No file entry under assembly.
NoAsm == [file |-> [status |-> "", type |-> "", path |-> <<"">>], base |-> <<"">>,
          signOk |-> FALSE, done |-> FALSE,
          FilePath |-> [nil |-> TRUE, kind |-> "", segs |-> <<"">>]]

\* A response without a signed model URL.
NoSigned == [signed |-> FALSE, signedAt |-> 0]

\* The listing:{id} key is absent.
NoTimedEntry == [kind |-> "none", resp |-> NoSigned, setAt |-> 0]

NoServed == [code |-> "NONE", resp |-> NoSigned, at |-> 0, saw |-> -1]

InitServe ==
    /\ now = 0
    /\ tcache = NoTimedEntry
    /\ tasync = [pending |-> FALSE, resp |-> NoSigned]
    /\ served = NoServed

\* Publish attempts for one draft.
MaxPublish == 3

\* A request that has not been sent.
NoPublish == [key |-> 0, st |-> "none", status |-> 0]

\* useListingDraft has loaded or generated the draft id (draft id 1); nothing
\* has been sent.
InitPublish ==
    /\ draftId = 1
    /\ awaited = 0
    /\ published = FALSE
    /\ preq = [q \in 1..MaxPublish |-> NoPublish]
    /\ klock = {} /\ kdata = {} /\ created = {}

InitKey == grant = NoGrant /\ asm = NoAsm /\ InitServe /\ InitPublish

\* POST /files/presign by an authenticated user: the handler computes the response.
PresignUploadCall(u, req) ==
    /\ grant = NoGrant
    /\ grant' = PresignUpload(u, req)
    /\ UNCHANGED <<asm, serveVars, publishVars, nonKeyVars>>

\* The response is written; the service keeps no state between calls.
PresignUploadDone ==
    /\ grant # NoGrant
    /\ grant' = NoGrant
    /\ UNCHANGED <<asm, serveVars, publishVars, nonKeyVars>>

NextKey ==
    \/ \E u \in Users, req \in PresignRequests : PresignUploadCall(u, req)
    \/ PresignUploadDone

-----------------------------------------------------------------------------
(* Database rows: migrations/00001_create_listings.sql, sqlc/queries.sql *)

ListingIds == 1..MaxListings

NoRow ==
    [present |-> FALSE, seller |-> "", title |-> "", categories |-> {},
     price |-> 0, currency |-> "",
     thumbnailPath |-> [valid |-> FALSE, path |-> <<"">>],
     dimensionsMm |-> [nil |-> TRUE, obj |-> {}],
     isAiGenerated |-> FALSE, aiModelName |-> [valid |-> FALSE, s |-> ""],
     status |-> "", deleted |-> FALSE, lastIndexed |-> FALSE, updatedAt |-> 0,
     ver |-> 0]

NumListings == Cardinality({i \in ListingIds : listings[i].present})

\* []byte(nil): what pgx reads from, and writes to, a NULL jsonb column.
NilBytes == [nil |-> TRUE, obj |-> {}]

\* json.Marshal(ListingDimensions): an object with the keys of the struct tags.
MarshalDimensions(d) ==
    [nil |-> FALSE, obj |-> {<<"x", d.X>>, <<"y", d.Y>>, <<"z", d.Z>>}]

InitDB ==
    /\ listings = [i \in ListingIds |-> NoRow]
    /\ files = {}

-----------------------------------------------------------------------------
(* createListing: handlers/listings/service.go CreateListing, Validate *)

NilPtr == [nil |-> TRUE, v |-> 0]
Ptr(x) == [nil |-> FALSE, v |-> x]

\* getValue: the string behind a *string, "" for nil.
getValue(p) == IF p.nil THEN "" ELSE p.v

\* strings.TrimSpace on the strings the requests are built from.
TrimSpace(s) == IF s = " " THEN "" ELSE s

\* strings.ToLower on the strings the requests are built from.
ToLower(s) ==
    CASE s = "USD" -> "usd"
      [] s = "Model" -> "model"
      [] s = "IMAGE" -> "image"
      [] OTHER -> s

OtherUser(u) == CHOOSE v \in Users : v # u

ModelPath(u) == <<"2025", "12", "12", u, "d1", "models", "benchy.stl">>
ImagePath(u) == <<"2025", "12", "12", u, "d1", "images", "benchy.png">>
ShortPath(u) == <<"incoming", u, "benchy.stl">>
EmptyPath == <<"">>

File(t, p, s) == [Type |-> t, Path |-> p, Size |-> s]

\* The file lists a caller posts: complete ones in both orders, and lists with
\* a missing kind, a foreign, short or empty path, a zero size, an unknown kind.
FileLists(u) ==
    { <<>>,
      <<File("model", ModelPath(u), 5), File("image", ImagePath(u), 5)>>,
      <<File("image", ImagePath(u), 5), File("model", ModelPath(u), 5)>>,
      <<File("Model", ModelPath(u), 5), File("image", ImagePath(u), 5)>>,
      <<File("model", ModelPath(u), 5), File("image", ImagePath(u), 5),
        File("image", ImagePath(u), 7)>>,
      <<File("model", ModelPath(u), 5)>>,
      <<File("image", ImagePath(u), 5)>>,
      <<File("model", ModelPath(u), 5), File("image", ImagePath(OtherUser(u)), 5)>>,
      <<File("model", ModelPath(OtherUser(u)), 5), File("image", ImagePath(u), 5)>>,
      <<File("model", ModelPath(u), 5), File("image", ShortPath(u), 5)>>,
      <<File("model", ModelPath(u), 5), File("image", EmptyPath, 5)>>,
      <<File("model", ModelPath(u), 5), File("image", ImagePath(u), 0)>>,
      <<File("model", ModelPath(u), 5), File("video", ImagePath(u), 5)>> }

Core(title, descLen, categories, license, price, currency, isAI, aiName) ==
    [Title |-> title, DescriptionLen |-> descLen, Categories |-> categories,
     License |-> license, PriceMinUnit |-> price, Currency |-> currency,
     IsAIGenerated |-> isAI, AIModelName |-> aiName]

\* Title, description (by its trimmed length), categories, license, price,
\* currency and AI disclosure: valid combinations and one violation each.
CoreProfiles ==
    { Core("Benchy", 20, {"toys"}, "cc-by", 0, "", FALSE, NilPtr),
      Core("Benchy", 20, {"toys"}, "cc-by", 500, "USD", FALSE, NilPtr),
      Core("Benchy", 20, {"toys"}, "cc-by", 500, "usd", FALSE, NilPtr),
      Core("Benchy", 20, {"toys"}, "cc-by", 0, "", TRUE, Ptr("sdxl")),
      Core("abc", 20, {"toys"}, "cc-by", 0, "", FALSE, NilPtr),
      Core("Benchy", 19, {"toys"}, "cc-by", 0, "", FALSE, NilPtr),
      Core("Benchy", 5001, {"toys"}, "cc-by", 0, "", FALSE, NilPtr),
      Core("Benchy", 20, {}, "cc-by", 0, "", FALSE, NilPtr),
      Core("Benchy", 20, {"toys"}, " ", 0, "", FALSE, NilPtr),
      Core("Benchy", 20, {"toys"}, "cc-by", -1, "usd", FALSE, NilPtr),
      Core("Benchy", 20, {"toys"}, "cc-by", 500, "eur", FALSE, NilPtr),
      Core("Benchy", 20, {"toys"}, "cc-by", 0, "", TRUE, NilPtr),
      Core("Benchy", 20, {"toys"}, "cc-by", 0, "", TRUE, Ptr(" ")) }

NilDimensions == [nil |-> TRUE, X |-> 0, Y |-> 0, Z |-> 0]

DimensionsValues ==
    { NilDimensions,
      [nil |-> FALSE, X |-> 10, Y |-> 20, Z |-> 30],
      [nil |-> FALSE, X |-> -1, Y |-> 20, Z |-> 30] }

NozzleTempValues == {NilPtr, Ptr(200), Ptr(100)}

MaterialsValues == {NilPtr, Ptr(<<"PLA">>), Ptr(<<"PLA", " ">>)}

CreateListingRequests(u) ==
    { [Title |-> c.Title, DescriptionLen |-> c.DescriptionLen,
       Categories |-> c.Categories, License |-> c.License,
       PriceMinUnit |-> c.PriceMinUnit, Currency |-> c.Currency,
       IsAIGenerated |-> c.IsAIGenerated, AIModelName |-> c.AIModelName,
       Dimensions |-> d, RecommendedNozzleTempC |-> t,
       RecommendedMaterials |-> m, Files |-> f] :
         c \in CoreProfiles, d \in DimensionsValues, t \in NozzleTempValues,
         m \in MaterialsValues, f \in FileLists(u) }

NoReq ==
    [Title |-> "", DescriptionLen |-> 0, Categories |-> {}, License |-> "",
     PriceMinUnit |-> 0, Currency |-> "", IsAIGenerated |-> FALSE,
     AIModelName |-> NilPtr, Dimensions |-> NilDimensions,
     RecommendedNozzleTempC |-> NilPtr, RecommendedMaterials |-> NilPtr,
     Files |-> <<>>]

\* File loop of Validate (lines 390-415): index of the first file that fails a
\* check gives the error; otherwise the kinds seen.
RECURSIVE ValidateFiles(_, _, _, _, _)
ValidateFiles(fs, i, userId, hasModel, hasImage) ==
    IF i > Len(fs)
    THEN IF ~hasModel THEN "INVALID_INPUT"
         ELSE IF ~hasImage THEN "INVALID_INPUT"
         ELSE "OK"
    ELSE LET f == fs[i]
             t == ToLower(f.Type)
         IN  IF ~checkUserOwnsFile(userId, f.Path) THEN "INVALID_INPUT"
             ELSE IF f.Path = EmptyPath THEN "INVALID_INPUT"
             ELSE IF f.Size <= 0 THEN "INVALID_INPUT"
             ELSE IF t = "model" THEN ValidateFiles(fs, i + 1, userId, TRUE, hasImage)
             ELSE IF t = "image" THEN ValidateFiles(fs, i + 1, userId, hasModel, TRUE)
             ELSE "INVALID_INPUT"

\* CreateListingRequest.Validate, check by check in the order of the code.
\* "PANIC": the range over *req.PrinterSettings.RecommendedMaterials (line 361)
\* dereferences a nil pointer when the material list is absent.
Validate(req, userId) ==
    LET titleLen == Len(TrimSpace(req.Title))
        descLen == req.DescriptionLen
    IN  IF titleLen < 5 \/ titleLen > 100 THEN "INVALID_INPUT"
        ELSE IF descLen < 20 THEN "INVALID_INPUT"
        ELSE IF descLen > 5000 THEN "INVALID_INPUT"
        ELSE IF Cardinality(req.Categories) = 0 THEN "INVALID_INPUT"
        ELSE IF TrimSpace(req.License) = "" THEN "INVALID_INPUT"
        ELSE IF req.PriceMinUnit < 0 THEN "INVALID_INPUT"
        ELSE IF req.PriceMinUnit > 0 /\ ToLower(req.Currency) \notin {"usd", "gbp"}
             THEN "INVALID_INPUT"
        ELSE IF ~req.Dimensions.nil
                /\ (req.Dimensions.X < 0 \/ req.Dimensions.Y < 0 \/ req.Dimensions.Z < 0)
             THEN "INVALID_INPUT"
        ELSE IF ~req.RecommendedNozzleTempC.nil
                /\ (req.RecommendedNozzleTempC.v < 180 \/ req.RecommendedNozzleTempC.v > 450)
             THEN "INVALID_INPUT"
        ELSE IF req.RecommendedMaterials.nil THEN "PANIC"
        ELSE IF \E i \in 1..Len(req.RecommendedMaterials.v) :
                    TrimSpace(req.RecommendedMaterials.v[i]) = ""
             THEN "INVALID_INPUT"
        ELSE IF req.IsAIGenerated
                /\ (req.AIModelName.nil \/ TrimSpace(req.AIModelName.v) = "")
             THEN "INVALID_INPUT"
        ELSE IF Len(req.Files) = 0 THEN "INVALID_INPUT"
        ELSE ValidateFiles(req.Files, 1, userId, FALSE, FALSE)

NoSnap == [listings |-> [i \in ListingIds |-> NoRow], files |-> {}, bus |-> {}]

InitCreate ==
    /\ cpc = "idle"
    /\ cuser = ""
    /\ creq = NoReq
    /\ cidx = 0
    /\ txListing = NoRow
    /\ txFiles = <<>>
    /\ eventsToPublish = <<>>
    /\ cres = "NONE"
    /\ cfailAt = "none"
    /\ cforeign = FALSE
    /\ csnap = NoSnap
    /\ posted = [i \in ListingIds |-> <<>>]
    /\ busStart = {}

\* POST /listings reaches the service: Validate runs first (line 74).
CreateListingCall(u, req) ==
    /\ UNCHANGED nonCreateVars
    /\ cpc = "idle"
    /\ NumListings < MaxListings
    /\ cuser' = u
    /\ cforeign' = \E i \in 1..Len(req.Files) : ~checkUserOwnsFile(u, req.Files[i].Path)
    /\ csnap' = [listings |-> listings, files |-> files, bus |-> busStart]
    /\ LET v == Validate(req, u) IN
         IF v = "OK"
         THEN /\ cpc' = "begin"
              /\ creq' = req
              /\ cres' = "NONE"
         ELSE /\ cpc' = "done"
              /\ creq' = NoReq
              /\ cres' = v
    /\ UNCHANGED <<cidx, txListing, txFiles, eventsToPublish, cfailAt, posted,
                   busStart, dbVars>>

\* A database error inside the transaction: the error return runs the deferred
\* tx.Rollback (line 102) and the call fails with INTERNAL.
FailInternal(at) ==
    /\ txListing' = NoRow
    /\ txFiles' = <<>>
    /\ eventsToPublish' = <<>>
    /\ cres' = "INTERNAL"
    /\ cfailAt' = at
    /\ cpc' = "done"
    /\ UNCHANGED <<cuser, creq, cidx, cforeign, csnap, posted, busStart, dbVars>>

\* s.db.Begin (lines 98-101).
TxBegin(ok) ==
    /\ UNCHANGED nonCreateVars
    /\ cpc = "begin"
    /\ IF ok
       THEN /\ cpc' = "insertListing"
            /\ UNCHANGED <<cuser, creq, cidx, txListing, txFiles, eventsToPublish,
                           cres, cfailAt, cforeign, csnap, posted, busStart, dbVars>>
       ELSE FailInternal("begin")

\* repo.CreateListingParams (lines 107-140) and the column defaults: the row
\* that CreateListing inserts.
CreateListingParams(u, req) ==
    [present |-> TRUE, seller |-> u, title |-> req.Title,
     categories |-> req.Categories,
     price |-> req.PriceMinUnit, currency |-> req.Currency,
     thumbnailPath |-> [valid |-> TRUE, path |-> req.Files[1].Path],
     dimensionsMm |-> IF req.Dimensions.nil THEN NilBytes
                      ELSE MarshalDimensions(req.Dimensions),
     isAiGenerated |-> req.IsAIGenerated,
     aiModelName |-> [valid |-> ~req.AIModelName.nil, s |-> getValue(req.AIModelName)],
     status |-> "PENDING_VALIDATION", deleted |-> FALSE,
     lastIndexed |-> FALSE, updatedAt |-> 0, ver |-> 0]

\* The file row that CreateListingFile inserts for the k-th posted file.
CreateListingFileParams(id, k, file) ==
    [id |-> <<id, k>>, listing |-> id, path |-> file.Path,
     type |-> IF ToLower(file.Type) = "model" THEN "MODEL" ELSE "IMAGE",
     status |-> "PENDING"]

\* qtx.CreateListing (lines 107-145): the row is written inside the transaction.
TxCreateListing(ok) ==
    /\ UNCHANGED nonCreateVars
    /\ cpc = "insertListing"
    /\ IF ok
       THEN /\ txListing' = CreateListingParams(cuser, creq)
            /\ cpc' = "insertFiles"
            /\ cidx' = 1
            /\ UNCHANGED <<cuser, creq, txFiles, eventsToPublish, cres, cfailAt,
                           cforeign, csnap, posted, busStart, dbVars>>
       ELSE FailInternal("listing")

\* Mutant: the file row written through the pool instead of the transaction.
TxCreateListingFile_Autocommit(ok) ==
    /\ UNCHANGED nonCreateVars
    /\ cpc = "insertFiles"
    /\ cidx <= Len(creq.Files)
    /\ LET file == creq.Files[cidx]
           t == ToLower(file.Type)
           id == NumListings + 1
       IN  IF ok
           THEN /\ files' = files \cup
                       {[id |-> <<id, cidx>>, listing |-> id, path |-> file.Path,
                         type |-> IF t = "model" THEN "MODEL" ELSE "IMAGE",
                         status |-> "PENDING"]}
                /\ eventsToPublish' = Append(eventsToPublish,
                       [ListingID |-> id, FileID |-> <<id, cidx>>,
                        FileType |-> file.Type, FileKey |-> file.Path])
                /\ cidx' = cidx + 1
                /\ UNCHANGED <<cpc, cuser, creq, txListing, txFiles, cres, cfailAt,
                               cforeign, csnap, posted, busStart, listings>>
           ELSE /\ FailInternal("file")

\* One iteration of the file loop (lines 151-187): qtx.CreateListingFile.
TxCreateListingFile(ok) ==
    /\ UNCHANGED nonCreateVars
    /\ cpc = "insertFiles"
    /\ cidx <= Len(creq.Files)
    /\ LET file == creq.Files[cidx]
           t == ToLower(file.Type)
           id == NumListings + 1
       IN  IF t \notin {"model", "image"}
           THEN /\ txListing' = NoRow
                /\ txFiles' = <<>>
                /\ eventsToPublish' = <<>>
                /\ cres' = "INVALID_INPUT"
                /\ cpc' = "done"
                /\ UNCHANGED <<cuser, creq, cidx, cfailAt, cforeign, csnap, posted,
                               busStart, dbVars>>
           ELSE IF ok
           THEN /\ txFiles' = Append(txFiles,
                       [id |-> <<id, cidx>>, listing |-> id, path |-> file.Path,
                        type |-> IF t = "model" THEN "MODEL" ELSE "IMAGE",
                        status |-> "PENDING"])
                /\ eventsToPublish' = Append(eventsToPublish,
                       [ListingID |-> id, FileID |-> <<id, cidx>>,
                        FileType |-> file.Type, FileKey |-> file.Path])
                /\ cidx' = cidx + 1
                /\ UNCHANGED <<cpc, cuser, creq, txListing, cres, cfailAt, cforeign,
                               csnap, posted, busStart, dbVars>>
           ELSE FailInternal("file")

\* tx.Commit (lines 190-193): the listing row and its file rows become visible.
TxCommit(ok) ==
    /\ UNCHANGED nonCreateVars
    /\ cpc = "insertFiles"
    /\ cidx > Len(creq.Files)
    /\ IF ok
       THEN LET id == NumListings + 1 IN
            /\ listings' = [listings EXCEPT ![id] = txListing]
            /\ files' = files \cup {txFiles[k] : k \in 1..Len(txFiles)}
            /\ posted' = [posted EXCEPT ![id] =
                             [k \in 1..Len(creq.Files) |-> creq.Files[k].Path]]
            /\ txListing' = NoRow
            /\ txFiles' = <<>>
            /\ cpc' = "publish"
            /\ cidx' = 1
            /\ UNCHANGED <<cuser, creq, eventsToPublish, cres, cfailAt, cforeign,
                           csnap, busStart>>
       ELSE FailInternal("commit")

\* events.RaiseStartFileValidationEvent: subject by evt.FileType; the result of
\* bus.Publish is dropped.
StartValidationSubject(fileType) ==
    CASE fileType = "image" -> "StartImageValidation"
      [] fileType = "model" -> "StartModelValidation"
      [] OTHER -> "unsupported"

\* One iteration of the publish loop (lines 197-226); errors are only logged.
\* After the last event the call returns the listing.
PublishEvent(delivered) ==
    /\ UNCHANGED nonCreateVars
    /\ cpc = "publish"
    /\ cidx <= Len(eventsToPublish)
    /\ LET evt == eventsToPublish[cidx]
           subject == StartValidationSubject(evt.FileType)
       IN  /\ busStart' =
               IF subject # "unsupported" /\ delivered
               THEN busStart \cup
                      {[subject |-> subject, listing |-> evt.ListingID,
                        file |-> evt.FileID, user |-> cuser,
                        msgId |-> <<"start", cuser, evt.ListingID, evt.FileID>>]}
               ELSE busStart
           /\ cfailAt' = IF subject # "unsupported" /\ ~delivered
                          THEN "publish" ELSE cfailAt
    /\ IF cidx = Len(eventsToPublish)
       THEN /\ cpc' = "done"
            /\ cres' = "OK"
            /\ eventsToPublish' = <<>>
            /\ UNCHANGED cidx
       ELSE /\ cidx' = cidx + 1
            /\ UNCHANGED <<cpc, cres, eventsToPublish>>
    /\ UNCHANGED <<cuser, creq, txListing, txFiles, cforeign, csnap,
                   posted, dbVars>>

\* The HTTP handler has written the response; the service keeps no call state.
CreateListingReturn ==
    /\ UNCHANGED nonCreateVars
    /\ cpc = "done"
    /\ cpc' = "idle"
    /\ cuser' = ""
    /\ creq' = NoReq
    /\ cidx' = 0
    /\ cres' = "NONE"
    /\ cfailAt' = "none"
    /\ cforeign' = FALSE
    /\ csnap' = NoSnap
    /\ UNCHANGED <<txListing, txFiles, eventsToPublish, posted, busStart, dbVars>>

NextCreate ==
    \/ \E u \in Users : \E req \in CreateListingRequests(u) : CreateListingCall(u, req)
    \/ \E ok \in BOOLEAN : TxBegin(ok)
    \/ \E ok \in BOOLEAN : TxCreateListing(ok)
    \/ \E ok \in BOOLEAN : TxCreateListingFile(ok)
    \/ \E ok \in BOOLEAN : TxCommit(ok)
    \/ \E delivered \in BOOLEAN : PublishEvent(delivered)
    \/ CreateListingReturn

-----------------------------------------------------------------------------
(* Strings that carry a listing id: the text form of a UUID, or other text.  *)
(* UuidString(n) is the text of the n-th generated id (0: an id no row has). *)

UuidString(n) == <<"uuid", n>>
NotAUuid == <<"not-a-uuid", 0>>
EmptyString == <<"", 0>>

\* No deleteListing call made yet.
NoDelete == [code |-> "NONE", user |-> "", id |-> EmptyString, up |-> FALSE]

ListingIdStrings == {UuidString(n) : n \in 0..MaxListings} \cup {NotAUuid}

\* pgtype.UUID.Scan: the id for the text of a UUID, an error for other text.
ScanUUID(s) ==
    IF s[1] = "uuid" THEN [ok |-> TRUE, id |-> s[2]] ELSE [ok |-> FALSE, id |-> 0]

\* Mutant: the query without the deleted_at filter.
GetListingByID_Unfiltered(id) ==
    IF ~dbUp THEN [err |-> "error", row |-> NoRow]
    ELSE IF id \in ListingIds /\ listings[id].present
         THEN [err |-> "", row |-> listings[id]]
         ELSE [err |-> "ErrNoRows", row |-> NoRow]

\* SELECT ... WHERE id = $1 AND deleted_at IS NULL (:one), gateway and worker.
GetListingByID(id) ==
    IF ~dbUp THEN [err |-> "error", row |-> NoRow]
    ELSE IF id \in ListingIds /\ listings[id].present /\ ~listings[id].deleted
         THEN [err |-> "", row |-> listings[id]]
         ELSE [err |-> "ErrNoRows", row |-> NoRow]

-----------------------------------------------------------------------------
(* listings-worker: events/event_reader.go, NATS bus adapter,                *)
(* indexing/service.go IndexListing                                          *)

\* Payloads on the index subject: bytes that are not JSON, and JSON objects
\* whose listing_id is the given text (EmptyString: the field is missing).
Payloads ==
    {[json |-> FALSE, listing_id |-> EmptyString]} \cup
    {[json |-> TRUE, listing_id |-> s] : s \in ListingIdStrings \cup {EmptyString}}

IndexPayload(idStr) == [json |-> TRUE, listing_id |-> idStr]

NoMsg == [json |-> FALSE, listing_id |-> <<"none", 0>>, seq |-> <<"none", 0>>]

\* The call the bus callback makes for a handler result: msg.Nak() for an
\* error, msg.Ack() for nil.
ReplyCall_AckAlways(err) == "ack"

ReplyCall(err) == IF err THEN "nak" ELSE "ack"

\* No reply made yet.
NoBusReply == [msg |-> NoMsg, err |-> FALSE, call |-> "none"]

\* json.Unmarshal(payload, &evt) in the subscription callback.
UnmarshalEvent(payload) ==
    IF payload.json THEN [err |-> FALSE, ListingID |-> payload.listing_id]
    ELSE [err |-> TRUE, ListingID |-> EmptyString]

JsonLookup(obj, key) ==
    IF \E p \in obj : p[1] = key THEN (CHOOSE p \in obj : p[1] = key)[2] ELSE 0

\* json.Unmarshal(listing.DimensionsMm, &ListingDimensionsJSON): fails on nil
\* bytes; a key that is absent leaves the field 0.
UnmarshalDimensions(bytes) ==
    IF bytes.nil THEN [err |-> TRUE, Width |-> 0, Depth |-> 0, Height |-> 0]
    ELSE [err |-> FALSE, Width |-> JsonLookup(bytes.obj, "width"),
          Depth |-> JsonLookup(bytes.obj, "depth"),
          Height |-> JsonLookup(bytes.obj, "height")]

publicFilesBucket == "https://files.example/public-files"

\* s.publicFilesBucket + listing.ThumbnailPath.String
PrefixPath(base, p) == <<base \o p[1]>> \o Tail(p)

NoDoc ==
    [id |-> <<"none", 0>>, title |-> "", thumbnail_url |-> <<"">>, dim_x_mm |-> 0,
     dim_y_mm |-> 0, dim_z_mm |-> 0, price_min_unit |-> 0, currency |-> "",
     seller_id |-> "", updated_at |-> 0, ver |-> 0]

\* The document map of IndexListing (lines 154-250); ver is history: the
\* number of updateListing writes the row had seen when it was read.
Document(listingID, listing, dims) ==
    [id |-> listingID, title |-> listing.title,
     thumbnail_url |-> PrefixPath(publicFilesBucket, listing.thumbnailPath.path),
     dim_x_mm |-> dims.Width, dim_y_mm |-> dims.Height, dim_z_mm |-> dims.Depth,
     price_min_unit |-> listing.price, currency |-> listing.currency,
     seller_id |-> listing.seller, updated_at |-> listing.updatedAt,
     ver |-> listing.ver]

\* Mutant: "no rows" treated like any other database error.
IndexListingAfterGet_NoRowsRetries(res) ==
    IF res.err # "" THEN "nack"
    ELSE IF ~res.row.thumbnailPath.valid THEN "ack"
    ELSE IF UnmarshalDimensions(res.row.dimensionsMm).err THEN "nack"
    ELSE "upsert"

\* IndexListing lines 129-152: what the handler does with the result of
\* GetListingByID.
IndexListingAfterGet(res) ==
    IF res.err = "ErrNoRows" THEN "ack"
    ELSE IF res.err # "" THEN "nack"
    ELSE IF ~res.row.thumbnailPath.valid THEN "ack"
    ELSE IF UnmarshalDimensions(res.row.dimensionsMm).err THEN "nack"
    ELSE "upsert"

NoRes == [err |-> "none", row |-> NoRow]

\* Members of the listings-worker queue group.
Workers == {"w1", "w2"}

\* A message on the index subject: a payload and what tells it from the other
\* pending messages of its publisher (the stream sequence).
Msg(p, src, n) == [json |-> p.json, listing_id |-> p.listing_id, seq |-> <<src, n>>]

InitHealth ==
    /\ dbUp = TRUE
    /\ searchUp = TRUE

InitWorkers ==
    /\ searchIndex = [i \in ListingIds |-> NoDoc]
    /\ xpc = [w \in Workers |-> "idle"]
    /\ xmsg = [w \in Workers |-> NoMsg]
    /\ xdoc = [w \in Workers |-> NoDoc]
    /\ xerr = [w \in Workers |-> FALSE]
    /\ xupsert = [w \in Workers |-> FALSE]
    /\ xres = [w \in Workers |-> NoRes]
    /\ xsearch = [w \in Workers |-> "none"]
    /\ xmark = [w \in Workers |-> "none"]
    /\ xhealthy = [w \in Workers |-> FALSE]
    /\ xsawDel = [w \in Workers |-> FALSE]
    /\ xexpired = [w \in Workers |-> FALSE]
    /\ xlast = [w \in Workers |-> NoBusReply]

InitIndex ==
    /\ stream = {}
    /\ InitWorkers

\* The database or the search engine goes down or comes back.
DbFail ==
    /\ dbUp
    /\ dbUp' = FALSE
    /\ xhealthy' = [w \in Workers |-> FALSE]
    /\ UNCHANGED <<searchUp, xpc, xmsg, xdoc, xerr, xupsert, xres, xsearch, xmark,
                   xsawDel, xexpired, xlast, stream, searchIndex>>
    /\ UNCHANGED <<idemVars, keyVars, dbVars, createVars, readVars, nops>>

DbRecover ==
    /\ ~dbUp
    /\ dbUp' = TRUE
    /\ UNCHANGED <<searchUp, indexVars>>
    /\ UNCHANGED <<idemVars, keyVars, dbVars, createVars, readVars, nops>>

SearchFail ==
    /\ searchUp
    /\ searchUp' = FALSE
    /\ xhealthy' = [w \in Workers |-> FALSE]
    /\ UNCHANGED <<dbUp, xpc, xmsg, xdoc, xerr, xupsert, xres, xsearch, xmark,
                   xsawDel, xexpired, xlast, stream, searchIndex>>
    /\ UNCHANGED <<idemVars, keyVars, dbVars, createVars, readVars, nops>>

SearchRecover ==
    /\ ~searchUp
    /\ searchUp' = TRUE
    /\ UNCHANGED <<dbUp, indexVars>>
    /\ UNCHANGED <<idemVars, keyVars, dbVars, createVars, readVars, nops>>

\* The sequence a newly published message gets: the first one no pending
\* message of the publisher with the same payload holds.
NextSeq(p, src) ==
    CHOOSE k \in 0..MaxOps :
        /\ Msg(p, src, k) \notin stream
        /\ \A j \in 0..(k - 1) : Msg(p, src, j) \in stream

\* A producer publishes an index event (validation pipeline, re-index request).
PublishIndex(p) ==
    /\ stream = {}
    /\ nops < MaxOps
    /\ nops' = nops + 1
    /\ stream' = {Msg(p, "producer", NextSeq(p, "producer"))}
    /\ UNCHANGED <<xlocalVars, searchIndex>>
    /\ UNCHANGED <<idemVars, keyVars, dbVars, createVars, readVars, healthVars>>

\* The bus delivers a message to one member of the group: the callback
\* unmarshals the payload and calls IndexListing, which scans the id and reads
\* the listing (lines 116-152).
IndexListingRead(w, m) ==
    /\ xpc[w] = "idle"
    /\ m \in stream
    /\ \A v \in Workers : xmsg[v] # m
    /\ nops < MaxOps
    /\ nops' = nops + 1
    /\ xmsg' = [xmsg EXCEPT ![w] = m]
    /\ xhealthy' = [xhealthy EXCEPT ![w] = dbUp /\ searchUp]
    /\ xupsert' = [xupsert EXCEPT ![w] = FALSE]
    /\ xsearch' = [xsearch EXCEPT ![w] = "none"]
    /\ xmark' = [xmark EXCEPT ![w] = "none"]
    /\ LET evt == UnmarshalEvent(m)
           uuid == ScanUUID(evt.ListingID)
           res == GetListingByID(uuid.id)
       IN  /\ xsawDel' = [xsawDel EXCEPT ![w] =
                             ~evt.err /\ uuid.ok /\ uuid.id \in ListingIds
                             /\ deletedOK[uuid.id]]
           /\ IF evt.err \/ ~uuid.ok
              THEN /\ xerr' = [xerr EXCEPT ![w] = FALSE]
                   /\ xres' = [xres EXCEPT ![w] = NoRes]
                   /\ xdoc' = [xdoc EXCEPT ![w] = NoDoc]
                   /\ xpc' = [xpc EXCEPT ![w] = "reply"]
              ELSE /\ xres' = [xres EXCEPT ![w] = res]
                   /\ LET d == IndexListingAfterGet(res) IN
                        IF d = "upsert"
                        THEN /\ xdoc' = [xdoc EXCEPT ![w] =
                                            Document(evt.ListingID, res.row,
                                                UnmarshalDimensions(res.row.dimensionsMm))]
                             /\ xerr' = [xerr EXCEPT ![w] = FALSE]
                             /\ xpc' = [xpc EXCEPT ![w] = "upsert"]
                        ELSE /\ xdoc' = [xdoc EXCEPT ![w] = NoDoc]
                             /\ xerr' = [xerr EXCEPT ![w] = (d = "nack")]
                             /\ xpc' = [xpc EXCEPT ![w] = "reply"]
    /\ xexpired' = [xexpired EXCEPT ![w] = FALSE]
    /\ xlast' = [xlast EXCEPT ![w] = NoBusReply]
    /\ UNCHANGED <<stream, searchIndex>>
    /\ UNCHANGED <<idemVars, keyVars, dbVars, createVars, readVars, healthVars>>

\* s.indexer.Upsert (lines 252-256).
IndexUpsert(w) ==
    /\ xpc[w] = "upsert"
    /\ xupsert' = [xupsert EXCEPT ![w] = TRUE]
    /\ IF searchUp
       THEN /\ searchIndex' = [searchIndex EXCEPT ![ScanUUID(xdoc[w].id).id] = xdoc[w]]
            /\ xsearch' = [xsearch EXCEPT ![w] = "ok"]
            /\ xpc' = [xpc EXCEPT ![w] = "mark"]
            /\ UNCHANGED xerr
       ELSE /\ xsearch' = [xsearch EXCEPT ![w] = "error"]
            /\ xerr' = [xerr EXCEPT ![w] = TRUE]
            /\ xpc' = [xpc EXCEPT ![w] = "reply"]
            /\ UNCHANGED searchIndex
    /\ UNCHANGED <<stream, xmsg, xdoc, xres, xmark, xhealthy, xsawDel, xexpired, xlast>>
    /\ UNCHANGED <<idemVars, keyVars, dbVars, createVars, readVars, healthVars, nops>>

\* s.repo.MarkListingAsIndexed (lines 258-265): UPDATE listings SET
\* last_indexed_at ... WHERE id = $1; the update_listings_modtime trigger sets
\* updated_at on every UPDATE of a row.
IndexMark(w) ==
    /\ xpc[w] = "mark"
    /\ LET id == ScanUUID(xdoc[w].id).id IN
       IF dbUp
       THEN /\ listings' = IF listings[id].present
                           THEN [listings EXCEPT ![id].lastIndexed = TRUE,
                                                 ![id].updatedAt = @ + 1]
                           ELSE listings
            /\ xmark' = [xmark EXCEPT ![w] = "ok"]
            /\ xerr' = [xerr EXCEPT ![w] = FALSE]
       ELSE /\ xmark' = [xmark EXCEPT ![w] = "error"]
            /\ xerr' = [xerr EXCEPT ![w] = TRUE]
            /\ UNCHANGED listings
    /\ xpc' = [xpc EXCEPT ![w] = "reply"]
    /\ UNCHANGED <<stream, searchIndex, xmsg, xdoc, xupsert, xres, xsearch, xhealthy,
                   xsawDel, xexpired, xlast, files>>
    /\ UNCHANGED <<idemVars, keyVars, createVars, readVars, healthVars, nops>>

\* The context the subscription wiring hands to svc.IndexListing:
\* context.Background(), not the context of the bus callback (the handler type
\* of SubscribeToIndexListingEvents takes the event only).
HandlerContext == "background"

\* The 30 s deadline of the bus callback's context passes while the
\* invocation's MarkListingAsIndexed has not answered.  A database call made
\* under a context is cancelled when that context expires and returns its
\* error; a call made under context.Background() is not.
Deadline(w) ==
    /\ xpc[w] = "mark"
    /\ ~xexpired[w]
    /\ xexpired' = [xexpired EXCEPT ![w] = TRUE]
    /\ IF HandlerContext = "message"
       THEN /\ xmark' = [xmark EXCEPT ![w] = "error"]
            /\ xerr' = [xerr EXCEPT ![w] = TRUE]
            /\ xpc' = [xpc EXCEPT ![w] = "reply"]
       ELSE UNCHANGED <<xmark, xerr, xpc>>
    /\ UNCHANGED <<stream, searchIndex, xmsg, xdoc, xupsert, xres, xsearch, xhealthy,
                   xsawDel, xlast>>
    /\ UNCHANGED <<idemVars, keyVars, dbVars, createVars, readVars, healthVars, nops>>

\* The bus callback after the handler returned: Nak on an error (the message
\* stays on the stream and is redelivered), Ack otherwise (the message leaves
\* the stream).
BusReply(w) ==
    /\ xpc[w] = "reply"
    /\ LET call == ReplyCall(xerr[w]) IN
         /\ stream' = IF call = "ack" THEN stream \ {xmsg[w]} ELSE stream
         /\ xlast' = [xlast EXCEPT ![w] = [msg |-> xmsg[w], err |-> xerr[w], call |-> call]]
    /\ xpc' = [xpc EXCEPT ![w] = "idle"]
    /\ xmsg' = [xmsg EXCEPT ![w] = NoMsg]
    /\ xdoc' = [xdoc EXCEPT ![w] = NoDoc]
    /\ xerr' = [xerr EXCEPT ![w] = FALSE]
    /\ xupsert' = [xupsert EXCEPT ![w] = FALSE]
    /\ xres' = [xres EXCEPT ![w] = NoRes]
    /\ xsearch' = [xsearch EXCEPT ![w] = "none"]
    /\ xmark' = [xmark EXCEPT ![w] = "none"]
    /\ xhealthy' = [xhealthy EXCEPT ![w] = FALSE]
    /\ xsawDel' = [xsawDel EXCEPT ![w] = FALSE]
    /\ xexpired' = [xexpired EXCEPT ![w] = FALSE]
    /\ UNCHANGED searchIndex
    /\ UNCHANGED <<idemVars, keyVars, dbVars, createVars, readVars, healthVars, nops>>

-----------------------------------------------------------------------------
(* Gateway read and write paths of a listing: listings/service.go            *)
(* GetListingByID, UpdateListing, DeleteListing, GetListingsForUser; cache   *)

Gets == {"g1", "g2"}

NoResp ==
    [id |-> 0, title |-> "", price |-> 0, seller |-> "", nfiles |-> 0, ver |-> 0,
     currency |-> "", categories |-> {}, isAIGenerated |-> FALSE,
     aiModelName |-> NilPtr, dimXMM |-> NilPtr, dimYMM |-> NilPtr, dimZMM |-> NilPtr]

\* toListingResponse (lines 692-897): the response built from a row and its
\* files.  The dimensions (lines 766-773) are read from the dimensions_mm
\* bytes through ListingDimensionsJSON when there are bytes and they parse.
toListingResponse(row, id) ==
    LET dims == UnmarshalDimensions(row.dimensionsMm)
        has == ~row.dimensionsMm.nil /\ ~dims.err
    IN  [id |-> id, title |-> row.title, price |-> row.price, seller |-> row.seller,
         nfiles |-> Cardinality({f \in files : f.listing = id}), ver |-> row.ver,
         currency |-> row.currency, categories |-> row.categories,
         isAIGenerated |-> row.isAiGenerated,
         aiModelName |-> IF row.aiModelName.valid THEN Ptr(row.aiModelName.s) ELSE NilPtr,
         dimXMM |-> IF has THEN Ptr(dims.Width) ELSE NilPtr,
         dimYMM |-> IF has THEN Ptr(dims.Depth) ELSE NilPtr,
         dimZMM |-> IF has THEN Ptr(dims.Height) ELSE NilPtr]

\* SELECT l.*, files ... WHERE l.id = $1 AND l.deleted_at IS NULL (:one).
GetListingByIDWithFiles(id) == GetListingByID(id)

\* The bytes of a JSON text: an object encoding a ListingResponse, or a JSON
\* string holding (in base64) other bytes.
NoEntry == [kind |-> "none", resp |-> NoResp]

\* json.Marshal(data ListingResponse)
JsonMarshalResponse(resp) == [kind |-> "object", resp |-> resp]

\* Mutant: the bytes stored as they are.
JsonMarshalBytes_Raw(b) == b

\* json.Marshal(value []byte) inside cache.Set[[]byte]: a JSON string with the
\* base64 text of the bytes.
JsonMarshalBytes(b) == [kind |-> "string", resp |-> b.resp]

\* Mutant: the text inside a JSON string is decoded as well.
JsonUnmarshalResponse_Lenient(val) ==
    IF val.kind \in {"object", "string"} THEN [err |-> FALSE, resp |-> val.resp]
    ELSE [err |-> TRUE, resp |-> NoResp]

\* json.Unmarshal(val, &ListingResponse) inside cache.Get[ListingResponse]: a
\* JSON string cannot be decoded into the struct.
JsonUnmarshalResponse(val) ==
    IF val.kind = "object" THEN [err |-> FALSE, resp |-> val.resp]
    ELSE [err |-> TRUE, resp |-> NoResp]

NoResult == [code |-> "NONE", resp |-> NoResp]

\* A nil slice.
NilSlice == [nil |-> TRUE, v |-> {}]

\* Patches of updateListing: of the title, the price, the currency and the AI
\* disclosure fields; Categories is a slice, nil unless the patch carries it.
Patch(title, price, currency, isAI, aiName) ==
    [Title |-> title, PriceMinUnit |-> price, Currency |-> currency,
     IsAIGenerated |-> isAI, AIModelName |-> aiName, Categories |-> NilSlice]

UpdateListingRequests ==
    { Patch(Ptr("Benchy v2"), NilPtr, NilPtr, NilPtr, NilPtr),
      Patch(NilPtr, Ptr(700), NilPtr, NilPtr, NilPtr),
      Patch(Ptr("Benchy v2"), Ptr(-5), NilPtr, NilPtr, NilPtr),
      Patch(NilPtr, Ptr(700), Ptr("usd"), NilPtr, NilPtr),
      Patch(NilPtr, NilPtr, NilPtr, Ptr(TRUE), NilPtr),
      Patch(NilPtr, NilPtr, NilPtr, Ptr(TRUE), Ptr("sdxl")),
      [Patch(NilPtr, NilPtr, NilPtr, NilPtr, NilPtr)
          EXCEPT !.Categories = [nil |-> FALSE, v |-> {"art"}]] }

NoPatch == Patch(NilPtr, NilPtr, NilPtr, NilPtr, NilPtr)

InitRead ==
    /\ cache = [s \in ListingIdStrings |-> NoEntry]
    /\ gpc = [g \in Gets |-> "idle"]
    /\ gid = [g \in Gets |-> EmptyString]
    /\ gres = [g \in Gets |-> NoResult]
    /\ gminVer = [g \in Gets |-> 0]
    /\ gsawDel = [g \in Gets |-> FALSE]
    /\ gcachedVer = [g \in Gets |-> -1]
    /\ upc = "idle"
    /\ uuser = ""
    /\ ureq = NoPatch
    /\ uid = EmptyString
    /\ ulisting = NoRow
    /\ ures = "NONE"
    /\ dres = NoDelete
    /\ deletedOK = [i \in ListingIds |-> FALSE]
    /\ lres = [code |-> "NONE", ids |-> {}, deletedBefore |-> {}]
    /\ returnedVer = [i \in ListingIds |-> 0]
    /\ nops = 0

IdOf(s) == ScanUUID(s).id

KnownId(s) == ScanUUID(s).ok /\ IdOf(s) \in ListingIds

\* GET /listings/{id}: cache.Get[ListingResponse] on listing:{id} (lines 615-624).
GetListingStart(g, listingID) ==
    /\ gpc[g] = "idle"
    /\ nops < MaxOps
    /\ nops' = nops + 1
    /\ gid' = [gid EXCEPT ![g] = listingID]
    /\ gminVer' = [gminVer EXCEPT ![g] =
                      IF KnownId(listingID) THEN returnedVer[IdOf(listingID)] ELSE 0]
    /\ gsawDel' = [gsawDel EXCEPT ![g] =
                      KnownId(listingID) /\ deletedOK[IdOf(listingID)]]
    /\ LET val == cache[listingID]
           dec == JsonUnmarshalResponse(val)
       IN  /\ gcachedVer' = [gcachedVer EXCEPT ![g] =
                                IF val = NoEntry THEN -1 ELSE val.resp.ver]
           /\ IF val # NoEntry /\ ~dec.err
              THEN /\ gres' = [gres EXCEPT ![g] = [code |-> "OK", resp |-> dec.resp]]
                   /\ gpc' = [gpc EXCEPT ![g] = "done"]
              ELSE /\ gres' = [gres EXCEPT ![g] = NoResult]
                   /\ gpc' = [gpc EXCEPT ![g] = "db"]
    /\ UNCHANGED <<cache, updVars, dres, deletedOK, lres, returnedVer>>
    /\ UNCHANGED <<idemVars, keyVars, dbVars, createVars, indexVars, healthVars>>

\* Cache miss: scan the id, read the listing with its files, answer the client
\* and start the goroutine that writes the cache (lines 627-651).
GetListingDb(g) ==
    /\ gpc[g] = "db"
    /\ LET uuid == ScanUUID(gid[g])
           res == GetListingByIDWithFiles(uuid.id)
       IN  IF ~uuid.ok
           THEN /\ gres' = [gres EXCEPT ![g] = [code |-> "INVALID_INPUT", resp |-> NoResp]]
                /\ gpc' = [gpc EXCEPT ![g] = "done"]
           ELSE IF res.err = "ErrNoRows"
           THEN /\ gres' = [gres EXCEPT ![g] = [code |-> "NOT_FOUND", resp |-> NoResp]]
                /\ gpc' = [gpc EXCEPT ![g] = "done"]
           ELSE IF res.err # ""
           THEN /\ gres' = [gres EXCEPT ![g] = [code |-> "INTERNAL", resp |-> NoResp]]
                /\ gpc' = [gpc EXCEPT ![g] = "done"]
           ELSE /\ gres' = [gres EXCEPT ![g] =
                               [code |-> "OK", resp |-> toListingResponse(res.row, uuid.id)]]
                /\ gpc' = [gpc EXCEPT ![g] = "async"]
    /\ UNCHANGED <<cache, gid, gminVer, gsawDel, gcachedVer, updVars, dres, deletedOK,
                   lres, returnedVer, nops>>
    /\ UNCHANGED <<idemVars, keyVars, dbVars, createVars, indexVars, healthVars>>

\* The goroutine of GetListingByID (lines 644-649), after the response was
\* returned: json.Marshal(data), then cache.Set of those bytes.
GetListingCacheSet(g, ok) ==
    /\ gpc[g] = "async"
    /\ cache' = IF ok
                THEN [cache EXCEPT ![gid[g]] =
                         JsonMarshalBytes(JsonMarshalResponse(gres[g].resp))]
                ELSE cache
    /\ gpc' = [gpc EXCEPT ![g] = "done"]
    /\ UNCHANGED <<gid, gres, gminVer, gsawDel, gcachedVer, updVars, dres, deletedOK,
                   lres, returnedVer, nops>>
    /\ UNCHANGED <<idemVars, keyVars, dbVars, createVars, indexVars, healthVars>>

\* The request and its goroutine are over.
GetListingDone(g) ==
    /\ gpc[g] = "done"
    /\ gpc' = [gpc EXCEPT ![g] = "idle"]
    /\ gid' = [gid EXCEPT ![g] = EmptyString]
    /\ gres' = [gres EXCEPT ![g] = NoResult]
    /\ gminVer' = [gminVer EXCEPT ![g] = 0]
    /\ gsawDel' = [gsawDel EXCEPT ![g] = FALSE]
    /\ gcachedVer' = [gcachedVer EXCEPT ![g] = -1]
    /\ UNCHANGED <<cache, updVars, dres, deletedOK, lres, returnedVer, nops>>
    /\ UNCHANGED <<idemVars, keyVars, dbVars, createVars, indexVars, healthVars>>

\* The TTL of a listing:{id} entry (ListingCacheTTL) runs out.
CacheExpire(s) ==
    /\ cache[s] # NoEntry
    /\ cache' = [cache EXCEPT ![s] = NoEntry]
    /\ UNCHANGED <<getVars, updVars, dres, deletedOK, lres, returnedVer, nops>>
    /\ UNCHANGED <<idemVars, keyVars, dbVars, createVars, indexVars, healthVars>>

\* UpdateListingRequest.CreateUpdatedListing (lines 527-602) on the title, the
\* currency, the price and the AI disclosure fields, in the order of the code;
\* the only check is the sign of the price.
CreateUpdatedListing(req, listing) ==
    LET l1 == IF req.Title.nil THEN listing ELSE [listing EXCEPT !.title = req.Title.v]
        l2 == IF req.Currency.nil THEN l1 ELSE [l1 EXCEPT !.currency = req.Currency.v]
        l3 == IF req.PriceMinUnit.nil THEN l2 ELSE [l2 EXCEPT !.price = req.PriceMinUnit.v]
        l4 == IF req.AIModelName.nil THEN l3
              ELSE [l3 EXCEPT !.aiModelName =
                       [valid |-> TrimSpace(req.AIModelName.v) # "",
                        s |-> req.AIModelName.v]]
        l5 == IF req.IsAIGenerated.nil THEN l4
              ELSE [l4 EXCEPT !.isAiGenerated = req.IsAIGenerated.v]
    IN  IF ~req.PriceMinUnit.nil /\ req.PriceMinUnit.v < 0
        THEN [err |-> TRUE, listing |-> l2]
        ELSE [err |-> FALSE, listing |-> l5]

\* existing.SellerID != userUUID (lines 469-472), as its negation.
OwnsListing_Anyone(row, u) == TRUE

OwnsListing(row, u) == row.seller = u

\* PUT /listings/{id}: fetch the listing, check the seller, apply the patch
\* (lines 449-478).
UpdateListingStart(u, listingID, req) ==
    /\ upc = "idle"
    /\ nops < MaxOps
    /\ nops' = nops + 1
    /\ uuser' = u
    /\ uid' = listingID
    /\ LET uuid == ScanUUID(listingID)
           res == GetListingByID(uuid.id)
           upd == CreateUpdatedListing(req, res.row)
       IN  IF ~uuid.ok
           THEN ures' = "INVALID_INPUT" /\ upc' = "done" /\ ulisting' = NoRow
           ELSE IF res.err = "ErrNoRows"
           THEN ures' = "NOT_FOUND" /\ upc' = "done" /\ ulisting' = NoRow
           ELSE IF res.err # ""
           THEN ures' = "INTERNAL" /\ upc' = "done" /\ ulisting' = NoRow
           ELSE IF ~OwnsListing(res.row, u)
           THEN ures' = "UNAUTHORIZED" /\ upc' = "done" /\ ulisting' = NoRow
           ELSE IF upd.err
           THEN ures' = "INVALID_INPUT" /\ upc' = "done" /\ ulisting' = NoRow
           ELSE ures' = "NONE" /\ upc' = "write" /\ ulisting' = upd.listing
    /\ ureq' = IF upc' = "write" THEN req ELSE NoPatch
    /\ UNCHANGED <<cache, getVars, dres, deletedOK, lres, returnedVer>>
    /\ UNCHANGED <<idemVars, keyVars, dbVars, createVars, indexVars, healthVars>>

\* s.repo.UpdateListing (lines 480-509): every updatable column is written from
\* the patched copy; WHERE id = $1 AND deleted_at IS NULL, :one.
UpdateListingWrite ==
    /\ upc = "write"
    /\ LET id == IdOf(uid) IN
       IF dbUp /\ listings[id].present /\ ~listings[id].deleted
       THEN /\ listings' = [listings EXCEPT ![id] =
                   [@ EXCEPT !.title = ulisting.title, !.price = ulisting.price,
                             !.categories = ulisting.categories,
                             !.currency = ulisting.currency,
                             !.thumbnailPath = ulisting.thumbnailPath,
                             !.dimensionsMm = ulisting.dimensionsMm,
                             !.isAiGenerated = ulisting.isAiGenerated,
                             !.aiModelName = ulisting.aiModelName,
                             !.status = ulisting.status,
                             !.updatedAt = @ + 1,
                             !.ver = @ + 1]]
            /\ ulisting' = [ulisting EXCEPT !.ver = listings[id].ver + 1]
            /\ upc' = "cacheDel"
            /\ UNCHANGED ures
       ELSE /\ ures' = "INTERNAL"
            /\ upc' = "done"
            /\ UNCHANGED <<listings, ulisting>>
    /\ UNCHANGED <<cache, getVars, uuser, ureq, uid, dres, deletedOK, lres, returnedVer,
                   nops, files>>
    /\ UNCHANGED <<idemVars, keyVars, createVars, indexVars, healthVars>>

\* cache.Del(listing:{id}) (lines 511-512); its error is dropped.
UpdateListingCacheDel(ok) ==
    /\ upc = "cacheDel"
    /\ cache' = IF ok THEN [cache EXCEPT ![uid] = NoEntry] ELSE cache
    /\ upc' = "publish"
    /\ UNCHANGED <<getVars, uuser, ureq, uid, ulisting, ures, dres, deletedOK, lres,
                   returnedVer, nops>>
    /\ UNCHANGED <<idemVars, keyVars, dbVars, createVars, indexVars, healthVars>>

\* RaiseListingIndexEvent (lines 514-522), a publish failure is only logged;
\* the call returns the updated listing.
UpdateListingPublish(delivered) ==
    /\ upc = "publish"
    /\ stream' = IF delivered
                 THEN stream \cup {Msg(IndexPayload(uid), "gateway",
                                      NextSeq(IndexPayload(uid), "gateway"))}
                 ELSE stream
    /\ ures' = "OK"
    /\ returnedVer' = [returnedVer EXCEPT ![IdOf(uid)] =
                          IF ulisting.ver > @ THEN ulisting.ver ELSE @]
    /\ upc' = "done"
    /\ UNCHANGED <<cache, getVars, uuser, ureq, uid, ulisting, dres, deletedOK, lres, nops>>
    /\ UNCHANGED <<xlocalVars, searchIndex>>
    /\ UNCHANGED <<idemVars, keyVars, dbVars, createVars, healthVars>>

\* A second updateListing call by the seller that runs from its fetch to its
\* return while the first one is between its fetch and its write: fetch,
\* patch, UPDATE, cache.Del and publish (lines 459-524), with no failure.
UpdateListingOverlap(u, listingID, req) ==
    /\ upc = "write"
    /\ nops < MaxOps
    /\ nops' = nops + 1
    /\ LET uuid == ScanUUID(listingID)
           res == GetListingByID(uuid.id)
           upd == CreateUpdatedListing(req, res.row)
       IN  /\ uuid.ok /\ dbUp /\ res.err = ""
           /\ OwnsListing(res.row, u)
           /\ ~upd.err
           /\ listings' = [listings EXCEPT ![uuid.id] =
                  [upd.listing EXCEPT !.updatedAt = @ + 1, !.ver = @ + 1]]
           /\ cache' = [cache EXCEPT ![listingID] = NoEntry]
           /\ stream' = stream \cup {Msg(IndexPayload(listingID), "gateway",
                                         NextSeq(IndexPayload(listingID), "gateway"))}
           /\ returnedVer' = [returnedVer EXCEPT ![uuid.id] =
                                 IF res.row.ver + 1 > @ THEN res.row.ver + 1 ELSE @]
    /\ UNCHANGED <<getVars, updVars, dres, deletedOK, lres, files>>
    /\ UNCHANGED <<xlocalVars, searchIndex>>
    /\ UNCHANGED <<idemVars, keyVars, createVars, healthVars>>

\* The HTTP handler has written the response.
UpdateListingReturn ==
    /\ upc = "done"
    /\ upc' = "idle"
    /\ uuser' = ""
    /\ ureq' = NoPatch
    /\ uid' = EmptyString
    /\ ulisting' = NoRow
    /\ ures' = "NONE"
    /\ UNCHANGED <<cache, getVars, dres, deletedOK, lres, returnedVer, nops>>
    /\ UNCHANGED <<idemVars, keyVars, dbVars, createVars, indexVars, healthVars>>

\* DELETE /listings/{id} (lines 654-676): one statement, UPDATE listings SET
\* deleted_at ... WHERE id = $1 AND seller_id = $2 RETURNING * (:one).  When no
\* row matches, the :one query returns pgx.ErrNoRows, the service wraps it with
\* fmt.Errorf and RespondError answers a plain error as ErrInternal.
DeleteListing(u, listingID) ==
    /\ nops < MaxOps
    /\ nops' = nops + 1
    /\ LET uuid == ScanUUID(listingID)
           id == uuid.id
       IN  IF uuid.ok /\ dbUp /\ id \in ListingIds /\ listings[id].present
              /\ listings[id].seller = u
           THEN /\ listings' = [listings EXCEPT ![id].deleted = TRUE,
                                                 ![id].updatedAt = @ + 1]
                /\ deletedOK' = [deletedOK EXCEPT ![id] = TRUE]
                /\ dres' = [code |-> "NO_CONTENT", user |-> u, id |-> listingID,
                             up |-> dbUp]
           ELSE /\ dres' = [code |-> "INTERNAL", user |-> u, id |-> listingID,
                             up |-> dbUp]
                /\ UNCHANGED <<listings, deletedOK>>
    /\ UNCHANGED <<cache, getVars, updVars, lres, returnedVer, files>>
    /\ UNCHANGED <<idemVars, keyVars, createVars, indexVars, healthVars>>

\* GET /listings (lines 231-285): SELECT ... WHERE l.seller_id = $1 AND
\* l.deleted_at IS NULL.
GetListingsForUser(u) ==
    /\ nops < MaxOps
    /\ nops' = nops + 1
    /\ lres' = IF dbUp
               THEN [code |-> "OK",
                     ids |-> {i \in ListingIds : listings[i].present
                                 /\ listings[i].seller = u /\ ~listings[i].deleted},
                     deletedBefore |-> {i \in ListingIds : deletedOK[i]}]
               ELSE [code |-> "INTERNAL", ids |-> {},
                     deletedBefore |-> {i \in ListingIds : deletedOK[i]}]
    /\ UNCHANGED <<cache, getVars, updVars, dres, deletedOK, returnedVer>>
    /\ UNCHANGED <<idemVars, keyVars, dbVars, createVars, indexVars, healthVars>>

-----------------------------------------------------------------------------
(* Composition *)

\* Requests that pass validation, with and without dimensions: the listings
\* the worker and the read paths operate on come from these.
SeedRequests(u) ==
    { [Title |-> "Benchy", DescriptionLen |-> 20, Categories |-> {"toys"},
       License |-> "cc-by", PriceMinUnit |-> 0, Currency |-> "",
       IsAIGenerated |-> FALSE, AIModelName |-> NilPtr, Dimensions |-> d,
       RecommendedNozzleTempC |-> NilPtr, RecommendedMaterials |-> Ptr(<<"PLA">>),
       Files |-> <<File("image", ImagePath(u), 5), File("model", ModelPath(u), 5)>>] :
         d \in {NilDimensions, [nil |-> FALSE, X |-> 10, Y |-> 20, Z |-> 30]} }

\* createListing calls that meet no database or bus failure.
NextSeedCreate ==
    \/ \E u \in Users : \E req \in SeedRequests(u) : CreateListingCall(u, req)
    \/ TxBegin(TRUE)
    \/ TxCreateListing(TRUE)
    \/ TxCreateListingFile(TRUE)
    \/ TxCommit(TRUE)
    \/ PublishEvent(TRUE)
    \/ CreateListingReturn

NextIndex ==
    \/ NextSeedCreate
    \/ \E p \in Payloads : PublishIndex(p)
    \/ \E m \in stream : IndexListingRead("w1", m)
    \/ IndexUpsert("w1")
    \/ IndexMark("w1")
    \/ BusReply("w1")
    \/ DbFail
    \/ DbRecover
    \/ SearchFail
    \/ SearchRecover
    \/ \E u \in Users : \E s \in ListingIdStrings : DeleteListing(u, s)

NextRead ==
    \/ \E g \in Gets : \E s \in ListingIdStrings : GetListingStart(g, s)
    \/ \E g \in Gets : GetListingDb(g)
    \/ \E g \in Gets : \E ok \in BOOLEAN : GetListingCacheSet(g, ok)
    \/ \E g \in Gets : GetListingDone(g)
    \/ \E s \in ListingIdStrings : CacheExpire(s)
    \/ \E u \in Users : \E s \in ListingIdStrings : \E req \in UpdateListingRequests :
          UpdateListingStart(u, s, req)
    \/ UpdateListingWrite
    \/ \E ok \in BOOLEAN : UpdateListingCacheDel(ok)
    \/ \E delivered \in BOOLEAN : UpdateListingPublish(delivered)
    \/ UpdateListingReturn
    \/ \E u \in Users : \E s \in ListingIdStrings : DeleteListing(u, s)
    \/ \E u \in Users : GetListingsForUser(u)
    \/ \E s \in ListingIdStrings : PublishIndex(IndexPayload(s))
    \/ \E m \in stream : IndexListingRead("w1", m)
    \/ IndexUpsert("w1")
    \/ IndexMark("w1")
    \/ BusReply("w1")

-----------------------------------------------------------------------------
(* Specifications *)

Init ==
    /\ InitIdem /\ InitKey /\ InitDB /\ InitCreate
    /\ InitHealth /\ InitIndex /\ InitRead

SpecIdem == Init /\ [][NextIdem]_vars

SpecKey == Init /\ [][NextKey]_vars

SpecCreate == Init /\ [][NextCreate]_vars

\* A row whose thumbnail_path is NULL: the column is nullable
\* (00001_create_listings.sql), CreateListing always fills it.
NullThumbnailRow ==
    [CreateListingParams("u1", CHOOSE r \in SeedRequests("u1") : ~r.Dimensions.nil)
        EXCEPT !.thumbnailPath = [valid |-> FALSE, path |-> <<"">>]]

\* The worker starts on an empty table or on one holding such a row.
InitStored ==
    /\ InitIdem /\ InitKey /\ InitCreate
    /\ InitHealth /\ InitIndex /\ InitRead
    /\ listings \in {[i \in ListingIds |-> NoRow],
                     [i \in ListingIds |-> IF i = 1 THEN NullThumbnailRow ELSE NoRow]}
    /\ files = {}

SpecIndex == InitStored /\ [][NextIndex]_vars

\* The tables, the bus and the call state after one createListing call of a
\* SeedRequests request by user u1 has committed, published its events and
\* returned.
ListedRequest == CHOOSE r \in SeedRequests("u1") : ~r.Dimensions.nil

ListedState ==
    LET u == "u1"
        req == ListedRequest
    IN  /\ listings = [i \in ListingIds |->
                          IF i = 1 THEN CreateListingParams(u, req) ELSE NoRow]
        /\ files = {CreateListingFileParams(1, k, req.Files[k]) : k \in 1..Len(req.Files)}
        /\ posted = [i \in ListingIds |->
                        IF i = 1 THEN [k \in 1..Len(req.Files) |-> req.Files[k].Path]
                        ELSE <<>>]
        /\ busStart =
              {[subject |-> StartValidationSubject(req.Files[k].Type), listing |-> 1,
                file |-> <<1, k>>, user |-> u, msgId |-> <<"start", u, 1, <<1, k>>>>] :
                  k \in 1..Len(req.Files)}
        /\ cpc = "idle" /\ cuser = "" /\ creq = NoReq /\ cidx = 0
        /\ txListing = NoRow /\ txFiles = <<>> /\ eventsToPublish = <<>>
        /\ cres = "NONE" /\ cfailAt = "none" /\ cforeign = FALSE /\ csnap = NoSnap

InitListed ==
    /\ InitIdem /\ InitKey /\ InitHealth /\ InitIndex /\ InitRead
    /\ ListedState

SpecRead == InitListed /\ [][NextRead]_vars

\* Two workers of the queue group handle index events while updateListing
\* calls commit; the re-index events of the updates reach the bus.
NextWorkers ==
    \/ \E s \in ListingIdStrings : PublishIndex(IndexPayload(s))
    \/ \E w \in Workers : \E m \in stream : IndexListingRead(w, m)
    \/ \E w \in Workers : IndexUpsert(w)
    \/ \E w \in Workers : IndexMark(w)
    \/ \E w \in Workers : BusReply(w)
    \/ \E w \in Workers : Deadline(w)
    \/ \E u \in Users : \E s \in ListingIdStrings : \E req \in UpdateListingRequests :
          UpdateListingStart(u, s, req)
    \/ UpdateListingWrite
    \/ \E s \in ListingIdStrings : \E req \in UpdateListingRequests :
          UpdateListingOverlap("u1", s, req)
    \/ \E ok \in BOOLEAN : UpdateListingCacheDel(ok)
    \/ UpdateListingPublish(TRUE)
    \/ UpdateListingReturn

\* The created listing with its first index event on the stream.
InitQueued ==
    /\ InitIdem /\ InitKey /\ InitHealth /\ InitWorkers /\ InitRead
    /\ ListedState
    /\ stream = {Msg(IndexPayload(UuidString(1)), "producer", 0)}

SpecWorkers == InitQueued /\ [][NextWorkers]_vars

-----------------------------------------------------------------------------
(* Read assembler: listings/service.go toListingResponse, the file entries *)

\* strings.ToUpper on the file types.
ToUpper(t) ==
    CASE t \in {"model", "Model", "MODEL"} -> "MODEL"
      [] t \in {"image", "Image", "IMAGE"} -> "IMAGE"
      [] OTHER -> t

\* file_path values a listing can hold: paths createListing accepts from their
\* owner (checkUserOwnsFile looks at the fourth "/"-separated part only).
StoredPaths ==
    {p \in {<<"2025", "12", "12", "u1", "d1", "models", "benchy.stl">>,
            <<"2025", "12", "12", "u2", "d2", "images", "benchy.png">>,
            <<"", "2025", "12", "u1", "d1", "images", "benchy.png">>} :
        \E u \in Users : checkUserOwnsFile(u, p)}

\* Configured public base URLs, without and with a trailing slash.
PublicFilesURLs ==
    {<<"https:", "", "files.example", "public-files">>,
     <<"https:", "", "files.example", "public-files", "">>}

\* strings.TrimRight(s, "/"): the trailing empty segments go.
RECURSIVE TrimRightSlash(_)
TrimRightSlash(s) ==
    IF Len(s) > 1 /\ s[Len(s)] = "" THEN TrimRightSlash(SubSeq(s, 1, Len(s) - 1)) ELSE s

\* A nil *string.
NilPath == [nil |-> TRUE, kind |-> "", segs |-> <<"">>]

\* storage.PresignGet(BucketProduct, key, 15 min): the signed GET URL of a key.
SignedGetURL(key) == [nil |-> FALSE, kind |-> "signed", segs |-> key]

\* fmt.Sprintf("%s/%s", strings.TrimRight(publicFilesURL, "/"), path).
PublicURL(base, path) ==
    [nil |-> FALSE, kind |-> "public", segs |-> TrimRightSlash(base) \o path]

\* The loop body of toListingResponse (lines 708-760) for one file: a file that
\* is not VALID keeps no path; a VALID model gets a signed URL, or no path when
\* signing fails; any other VALID file gets the public URL.
AssembleFile(f, base, signOk) ==
    IF f.status # "VALID" THEN NilPath
    ELSE IF ToUpper(f.type) = "MODEL"
         THEN (IF signOk THEN SignedGetURL(f.path) ELSE NilPath)
         ELSE PublicURL(base, f.path)

\* A row of listing_files as the files query returns it (status and type
\* range over the enums file_status and file_type of the schema), the
\* configured base URL and whether the storage provider will sign.
InitAssemble ==
    /\ InitIdem /\ InitDB /\ InitCreate /\ InitHealth /\ InitIndex /\ InitRead
    /\ grant = NoGrant /\ InitServe /\ InitPublish
    /\ \E st \in {"PENDING", "VALID", "FAILED"}, t \in {"MODEL", "IMAGE"}, p \in StoredPaths,
          b \in PublicFilesURLs, ok \in BOOLEAN :
          asm = [NoAsm EXCEPT !.file = [status |-> st, type |-> t, path |-> p],
                              !.base = b, !.signOk = ok]

\* toListingResponse builds the entry of the file.
Assemble ==
    /\ ~asm.done
    /\ asm' = [asm EXCEPT !.done = TRUE,
                          !.FilePath = AssembleFile(asm.file, asm.base, asm.signOk)]
    /\ UNCHANGED <<grant, serveVars, publishVars, nonKeyVars>>

SpecAssemble == InitAssemble /\ [][Assemble]_vars

-----------------------------------------------------------------------------
(* deleteListing and the search index: the stored listing with its first     *)
(* index event, one worker, deleteListing and further index events           *)

NextUnindex ==
    \/ \E u \in Users : \E s \in ListingIdStrings : DeleteListing(u, s)
    \/ \E s \in ListingIdStrings : PublishIndex(IndexPayload(s))
    \/ \E m \in stream : IndexListingRead("w1", m)
    \/ IndexUpsert("w1")
    \/ IndexMark("w1")
    \/ BusReply("w1")

\* The bus delivers every message that is not acknowledged and the worker's
\* callback runs to its reply.
FairUnindex ==
    /\ WF_vars(\E m \in stream : IndexListingRead("w1", m))
    /\ WF_vars(IndexUpsert("w1"))
    /\ WF_vars(IndexMark("w1"))
    /\ WF_vars(BusReply("w1"))

SpecUnindex == InitQueued /\ [][NextUnindex]_vars /\ FairUnindex

-----------------------------------------------------------------------------
(* getListing over time: the TTL of listing:{id} and the lifetime of the      *)
(* signed model URL, for one listing with one VALID MODEL file             *)

\* The end of the modelled time, in quarters of an hour.
MaxNow == 5

\* ListingCacheTTL = time.Hour * 1, in quarters of an hour.
ListingCacheTTL == 4

\* The expiry handed to PresignGet, time.Minute*15, in quarters of an hour.
PresignGetExpiry == 1

\* toListingResponse at time t: the model file's path is the URL PresignGet
\* signed at t, or nil when signing failed.
TimedResponse(signOk, t) ==
    [signed |-> signOk, signedAt |-> IF signOk THEN t ELSE 0]

\* GetListingByID (lines 612-652): cache.Get[ListingResponse]; on a hit the
\* cached response is returned; otherwise the row is read, the response is
\* assembled and returned, and the goroutine that fills the cache is started.
TimedGetListingByID(signOk) ==
    /\ ~tasync.pending
    /\ LET dec == JsonUnmarshalResponse(tcache)
           saw == IF tcache.kind # "none" /\ tcache.resp.signed
                  THEN tcache.resp.signedAt ELSE -1
       IN  IF tcache.kind # "none" /\ ~dec.err
           THEN /\ served' = [code |-> "OK", resp |-> dec.resp, at |-> now, saw |-> saw]
                /\ UNCHANGED tasync
           ELSE LET resp == TimedResponse(signOk, now)
                IN  /\ served' = [code |-> "OK", resp |-> resp, at |-> now, saw |-> saw]
                    /\ tasync' = [pending |-> TRUE, resp |-> resp]
    /\ UNCHANGED <<now, tcache, grant, asm, publishVars, nonKeyVars>>

\* The goroutine (lines 644-649): json.Marshal(data), then cache.Set of the
\* bytes with ListingCacheTTL; the error of cache.Set is dropped.
TimedCacheSet(ok) ==
    /\ tasync.pending
    /\ tasync' = [pending |-> FALSE, resp |-> NoSigned]
    /\ tcache' = IF ok
                 THEN [kind |-> JsonMarshalBytes(JsonMarshalResponse(tasync.resp)).kind,
                       resp |-> tasync.resp, setAt |-> now]
                 ELSE tcache
    /\ UNCHANGED <<now, served, grant, asm, publishVars, nonKeyVars>>

\* A quarter of an hour passes; Redis drops the key when its TTL is over.
Tick ==
    /\ now < MaxNow
    /\ now' = now + 1
    /\ tcache' = IF tcache.kind # "none" /\ now' >= tcache.setAt + ListingCacheTTL
                 THEN NoTimedEntry ELSE tcache
    /\ UNCHANGED <<tasync, served, grant, asm, publishVars, nonKeyVars>>

NextServe ==
    \/ \E signOk \in BOOLEAN : TimedGetListingByID(signOk)
    \/ \E ok \in BOOLEAN : TimedCacheSet(ok)
    \/ Tick

SpecServe == InitListed /\ [][NextServe]_vars

-----------------------------------------------------------------------------
(* The web UI's publish flow for one draft, with the idempotency middleware  *)
(* and createListing taken one cache step and one handler run at a time      *)

\* uuidv4(): a draft id that has not been used.
Uuidv4 == draftId + 1

\* handlePublish (create-listing.tsx lines 74-125) with files present: the
\* button is disabled while the mutation is pending; mutate sends
\* POST /listings with Idempotency-Key: draftId (use-create-listing.tsx).
HandlePublish ==
    /\ ~published /\ awaited = 0
    /\ \E q \in 1..MaxPublish :
          /\ preq[q].st = "none"
          /\ \A p \in 1..(q - 1) : preq[p].st # "none"
          /\ preq' = [preq EXCEPT ![q] = [key |-> draftId, st |-> "sent", status |-> 0]]
          /\ awaited' = q
    /\ UNCHANGED <<draftId, published, klock, kdata, created>>
    /\ UNCHANGED <<grant, asm, serveVars, nonKeyVars>>

\* The middleware up to the handler (part_024 lines 41-88): a stored response
\* is replayed, a held lock is answered with CONFLICT, otherwise the lock is
\* taken and the handler runs.
PublishEnter(q) ==
    /\ preq[q].st = "sent"
    /\ LET k == preq[q].key
       IN  IF k \in kdata
           THEN /\ preq' = [preq EXCEPT ![q].st = "answered", ![q].status = StatusCreated]
                /\ UNCHANGED klock
           ELSE IF k \in klock
           THEN /\ preq' = [preq EXCEPT ![q].st = "answered", ![q].status = StatusConflict]
                /\ UNCHANGED klock
           ELSE /\ preq' = [preq EXCEPT ![q].st = "running"]
                /\ klock' = klock \cup {k}
    /\ UNCHANGED <<draftId, awaited, published, kdata, created>>
    /\ UNCHANGED <<grant, asm, serveVars, nonKeyVars>>

\* The handler returns: 201 after the listing is committed, and the response
\* is saved and the lock deleted; or 500 with nothing committed, and the
\* key is deleted (part_024 lines 97-129).
PublishHandler(q, s) ==
    /\ preq[q].st = "running"
    /\ preq' = [preq EXCEPT ![q].st = "answered", ![q].status = s]
    /\ klock' = klock \ {preq[q].key}
    /\ IF IsRollbackStatus(s)
       THEN /\ kdata' = kdata \ {preq[q].key}
            /\ UNCHANGED created
       ELSE /\ kdata' = kdata \cup {preq[q].key}
            /\ created' = created \cup {q}
    /\ UNCHANGED <<draftId, awaited, published>>
    /\ UNCHANGED <<grant, asm, serveVars, nonKeyVars>>

\* onSuccess (lines 96-104): clearDraft, which rotates the draft id.
OnSuccess ==
    /\ awaited # 0
    /\ preq[awaited].st = "answered" /\ preq[awaited].status <= 299
    /\ published' = TRUE
    /\ draftId' = Uuidv4
    /\ awaited' = 0
    /\ UNCHANGED <<preq, klock, kdata, created>>
    /\ UNCHANGED <<grant, asm, serveVars, nonKeyVars>>

\* onError with a BackendError (lines 105-116): an answer of the gateway with
\* an error_code; rotateDraftId when httpStatus > 299.
OnBackendError ==
    /\ awaited # 0
    /\ preq[awaited].st = "answered" /\ preq[awaited].status > 299
    /\ draftId' = Uuidv4
    /\ awaited' = 0
    /\ UNCHANGED <<published, preq, klock, kdata, created>>
    /\ UNCHANGED <<grant, asm, serveVars, nonKeyVars>>

\* onError with an axios error that carries no response (lines 117-120): the
\* connection failed or timed out; the draft id is kept and the request goes
\* on at the gateway.
OnNetworkError ==
    /\ awaited # 0
    /\ awaited' = 0
    /\ UNCHANGED <<draftId, published, preq, klock, kdata, created>>
    /\ UNCHANGED <<grant, asm, serveVars, nonKeyVars>>

NextPublish ==
    \/ HandlePublish
    \/ \E q \in 1..MaxPublish : PublishEnter(q)
    \/ \E q \in 1..MaxPublish :
          \E s \in {StatusCreated, StatusInternalServerError} : PublishHandler(q, s)
    \/ OnSuccess
    \/ OnBackendError
    \/ OnNetworkError

SpecPublish == Init /\ [][NextPublish]_vars

-----------------------------------------------------------------------------
(* Claims on the idempotency middleware *)

\* The claim's own reading of "status >= 500 or TOO_MANY_REQUESTS".
ClaimRollback(s) == s >= 500 \/ s = 429

\* C1: for one Idempotency-Key the wrapped handler runs for exactly one of the
\* concurrent requests.  Stated for the runs in which the lock key never
\* expired and no run ended with a rollback status (where a second run is the
\* documented retry): there the handler is entered at most once.
C1_HandlerRunsOnce ==
    ( /\ ~ttlExpired
      /\ \A r \in Reqs : ireply[r].kind = "run" => ~ClaimRollback(ireply[r].status) )
    => runCount <= 1

\* C9: once a response is stored under the key, every later request with the
\* key gets that same response (status, body, non-deny-listed headers plus
\* X-Idempotency-Hit) until the data TTL expires.
C9_LaterRequestsGetStoredResponse ==
    \A r \in Reqs :
        ( /\ ipc[r] = "done"
          /\ startData[r] # NoData
          /\ ~dataExpired
          /\ ~ttlExpired )
        => ireply[r] = [kind |-> "replay", status |-> startData[r].status,
                        hdrs |-> ReplayHeaders(startData[r].hdrs),
                        body |-> startData[r].body]

C11_SaveAtomic ==
    \A r \in Reqs :
        ( /\ ireply[r].kind = "run"
          /\ ~ClaimRollback(ireply[r].status)
          /\ runCount = 1
          /\ ~dataExpired )
        => (lock \/ data # NoData)

-----------------------------------------------------------------------------
(* Claims on the upload authorizer *)

\* C8: every key PresignUpload grants to user u has u at segment index 3, so it
\* fails createListing's ownership check for every other user: no accepted
\* request yields a grant for a key under another user's id.
C8_NoGrantUnderOtherUser ==
    grant.code = "OK" =>
        \A v \in Users \ {grant.user} : ~checkUserOwnsFile(v, grant.key)

-----------------------------------------------------------------------------
(* Claims on createListing *)

\* C2: createListing is all-or-nothing.  When the call has failed with INTERNAL
\* (the listing insert, a file insert or the commit failed), the tables hold
\* exactly the rows they held when the call began and no StartFileValidation
\* message was published; and every visible listing row has, in posting order,
\* exactly the file rows posted with it.
C2_CreateAllOrNothing ==
    /\ (cpc = "done" /\ cres = "INTERNAL")
          => /\ listings = csnap.listings
             /\ files = csnap.files
             /\ busStart = csnap.bus
             /\ txListing = NoRow /\ txFiles = <<>>
    /\ \A id \in ListingIds :
          listings[id].present =>
             /\ Len(posted[id]) > 0
             /\ \A k \in 1..Len(posted[id]) :
                   \E f \in files : f.id = <<id, k>> /\ f.listing = id /\ f.path = posted[id][k]
             /\ Cardinality({f \in files : f.listing = id}) = Len(posted[id])
    /\ \A f \in files : listings[f.listing].present

\* A file insert failed after an earlier file row had been written in the
\* transaction, and the call has returned INTERNAL.
C2_Witness ==
    /\ cpc = "done"
    /\ cres = "INTERNAL"
    /\ cfailAt = "file"
    /\ cidx >= 2

\* C7: a createListing request holding a file path that the caller does not own
\* (index-3 segment of another user, or too few segments) is rejected with
\* INVALID_INPUT, writes no row and publishes no event.
C7_ForeignPathRejected ==
    (cpc = "done" /\ cforeign)
        => /\ cres = "INVALID_INPUT"
           /\ listings = csnap.listings
           /\ files = csnap.files
           /\ busStart = csnap.bus

-----------------------------------------------------------------------------
(* Claims on the index handler *)

WellFormedUuidStrings == {UuidString(n) : n \in 0..MaxListings}

C4_HealthyInvocationAcks ==
    \A w \in Workers : (xpc[w] = "reply" /\ xhealthy[w]) =>
        /\ ~xerr[w]
        /\ (xres[w].err = "" /\ xres[w].row.thumbnailPath.valid)
              => /\ xsearch[w] = "ok"
                 /\ xmark[w] = "ok"
                 /\ listings[ScanUUID(xmsg[w].listing_id).id].lastIndexed

-----------------------------------------------------------------------------
(* Claims on the gateway read paths *)

-----------------------------------------------------------------------------
(* Claims on the events and the rows of createListing *)

\* The subject the claim gives to a file row of the given kind.
ClaimSubject(kind) ==
    IF kind = "IMAGE" THEN "StartImageValidation" ELSE "StartModelValidation"

\* C12: after createListing commits, exactly one StartFileValidation event is
\* published for each file row created, only after the commit, on the image
\* subject for an IMAGE row and on the model subject for a MODEL row, with
\* publish id start.{userId}.{listingId}.{fileId}, for every file type string
\* that validation accepts.  Stated for a call that has returned the listing
\* and met no failing bus call; and no message ever names an uncommitted file.
C12_OneEventPerFile ==
    /\ \A m \in busStart : \E f \in files : f.id = m.file /\ f.listing = m.listing
    /\ (cpc = "done" /\ cres = "OK" /\ cfailAt # "publish") =>
          \A f \in files : f.listing = NumListings =>
              LET ms == {m \in busStart : m.file = f.id} IN
                /\ Cardinality(ms) = 1
                /\ \A m \in ms :
                      /\ m.subject = ClaimSubject(f.type)
                      /\ m.listing = f.listing
                      /\ m.msgId = <<"start", cuser, f.listing, f.id>>

\* The listing invariants on a row.
RowInvariants(row) ==
    /\ row.price >= 0
    /\ row.price > 0 => row.currency \in {"usd", "gbp"}
    /\ row.isAiGenerated => (row.aiModelName.valid /\ row.aiModelName.s # "")

\* What the claim requires of a request: both kinds of file, and the listing
\* invariants on its fields.
RequestMeetsInvariants(req) ==
    /\ \E k \in 1..Len(req.Files) : ToLower(req.Files[k].Type) = "model"
    /\ \E k \in 1..Len(req.Files) : ToLower(req.Files[k].Type) = "image"
    /\ req.PriceMinUnit >= 0
    /\ req.PriceMinUnit > 0 => req.Currency \in {"usd", "gbp"}
    /\ req.IsAIGenerated => (~req.AIModelName.nil /\ req.AIModelName.v # "")

\* C13: every listing createListing persists has state PENDING_VALIDATION,
\* all its file rows PENDING, at least one MODEL and one IMAGE file, price >= 0,
\* (price > 0 => currency in {usd, gbp}) and (isAIGenerated => aiModelName
\* non-empty).
C13_CreatedListingInvariants ==
    \A id \in ListingIds : listings[id].present =>
        /\ listings[id].status = "PENDING_VALIDATION"
        /\ \A f \in files : f.listing = id => f.status = "PENDING"
        /\ \E f \in files : f.listing = id /\ f.type = "MODEL"
        /\ \E f \in files : f.listing = id /\ f.type = "IMAGE"
        /\ RowInvariants(listings[id])

\* C14: in every state reachable by createListing and updateListing calls the
\* listing invariants hold on every row: price >= 0, (price > 0 => currency in
\* {usd, gbp}) and (isAIGenerated => aiModelName non-empty); updateListing
\* rejects a patch whose result would break one of them.
C14_UpdateKeepsInvariants ==
    \A id \in ListingIds : listings[id].present => RowInvariants(listings[id])

\* C15: for every payload, with any subset of the optional fields absent, a
\* createListing call ends with the created listing or with an INVALID_INPUT
\* or INTERNAL error, never with a crash of the handler; and a call that
\* returned the listing has left one PENDING file row per posted file.
C15_NoCrashOnAbsentOptionals ==
    cpc = "done" =>
        /\ cres \in {"OK", "INVALID_INPUT", "INTERNAL"}
        /\ cres = "OK" =>
              /\ listings[NumListings].present
              /\ \A k \in 1..Len(creq.Files) :
                    \E f \in files : /\ f.id = <<NumListings, k>>
                                     /\ f.path = creq.Files[k].Path
                                     /\ f.status = "PENDING"

-----------------------------------------------------------------------------
(* Claims on concurrent and repeated indexing *)

\* The document composed from the current row of a listing.
CurrentDocument(id) ==
    Document(UuidString(id), listings[id], UnmarshalDimensions(listings[id].dimensionsMm))

\* Every published index event is acked and no update is in flight.
AllAcked ==
    /\ stream = {}
    /\ \A w \in Workers : xpc[w] = "idle"
    /\ upc = "idle"

\* C16: index handling is commutative and idempotent in effect: when several
\* index events for a listing are handled in any order, redelivered or handled
\* concurrently by several workers while updateListing calls commit, then once
\* all events are acked the index document equals the document composed from
\* the listing's current row (compared on every field but updated_at).
C16_IndexConverges ==
    AllAcked =>
        \A id \in ListingIds :
            searchIndex[id] # NoDoc =>
                [searchIndex[id] EXCEPT !.updated_at = 0]
                    = [CurrentDocument(id) EXCEPT !.updated_at = 0]

\* C17: re-indexing is idempotent: a document written for a listing that no
\* user updated since the document in the index was composed equals that
\* document in every field.
C17_ReindexSameDocument ==
    [][\A id \in ListingIds :
          (searchIndex[id] # NoDoc /\ searchIndex'[id].ver = searchIndex[id].ver)
              => searchIndex'[id] = searchIndex[id]]_vars

-----------------------------------------------------------------------------
(* Claims on the bus adapter *)

\* C18: for each delivered message the bus callback runs the handler and then
\* makes exactly one of ack and nack: ack exactly when the handler returned
\* nil, nack exactly when it returned an error; a message is never acked
\* while its handler is still running.
C18_AckIffNil ==
    \A w \in Workers :
        /\ xlast[w].call \in {"none", "ack", "nak"}
        /\ xlast[w].call # "none" =>
              /\ (xlast[w].call = "ack") <=> ~xlast[w].err
              /\ (xlast[w].call = "nak") <=> xlast[w].err
              /\ xlast[w].call = "nak" => xlast[w].msg \in stream
        /\ xmsg[w] # NoMsg => xmsg[w] \in stream

\* A handler returned an error and its message was nacked and stays on the
\* stream.
C18_Witness ==
    \E w \in Workers :
        /\ xlast[w].call = "nak"
        /\ xlast[w].err
        /\ xlast[w].msg \in stream
        /\ xpc[w] = "idle"

\* C19: every invocation of the index handler runs under the per-message
\* context: once the deadline of that context has passed with a database call
\* of the invocation unanswered, the call has been cancelled and the
\* invocation has ended with an error (to be nacked).
C19_DeadlineEndsInvocation ==
    \A w \in Workers :
        xexpired[w] => (xpc[w] = "reply" /\ xerr[w])

-----------------------------------------------------------------------------
(* Claims on the ownership check of updateListing *)

\* The listing row, the cache entries and the bus are as they were.
UpdateLeftNoTrace ==
    /\ listings' = listings
    /\ files' = files
    /\ cache' = cache
    /\ stream' = stream
    /\ busStart' = busStart

\* C20: updateListing by a user who is not the seller of the listing answers
\* UNAUTHORIZED, or NOT_FOUND when the listing does not exist or is
\* soft-deleted, and from its first step to its return leaves the listing row,
\* the cache entry and the bus unchanged.
C20_NonSellerUpdateRejected ==
    [][/\ (upc = "idle" /\ upc' # "idle" /\ ScanUUID(uid').ok /\ dbUp) =>
             LET id == ScanUUID(uid').id
                 row == IF id \in ListingIds THEN listings[id] ELSE NoRow
                 gone == ~row.present \/ row.deleted
             IN  (gone \/ row.seller # uuser') =>
                     /\ upc' = "done"
                     /\ ures' = IF gone THEN "NOT_FOUND" ELSE "UNAUTHORIZED"
                     /\ UpdateLeftNoTrace
       /\ (upc = "done" /\ ures \in {"UNAUTHORIZED", "NOT_FOUND"} /\ upc' # upc) =>
             UpdateLeftNoTrace]_vars

\* An updateListing by a user other than the seller of a stored listing has
\* been answered.
C20_Witness ==
    /\ upc = "done"
    /\ ures = "UNAUTHORIZED"
    /\ ScanUUID(uid).ok
    /\ listings[IdOf(uid)].present
    /\ ~listings[IdOf(uid)].deleted
    /\ listings[IdOf(uid)].seller # uuser

-----------------------------------------------------------------------------
(* Claims on deleteListing *)

\* The latest deleteListing was made, with a well-formed id and an answering
\* database, by a user who is not the seller of the listing, or for a listing
\* that does not exist.
DeleteByNonSeller ==
    /\ dres.code # "NONE"
    /\ dres.up
    /\ ScanUUID(dres.id).ok
    /\ LET id == ScanUUID(dres.id).id IN
         \/ id \notin ListingIds
         \/ ~listings[id].present
         \/ listings[id].seller # dres.user

\* C21: deleteListing sets deleted_at only for the seller of the listing and
\* then answers NO_CONTENT; for a caller who is not the seller, or a listing
\* that does not exist, it changes no row and does not fail with an error.
C21_DeleteNoOpForNonSeller ==
    /\ DeleteByNonSeller => dres.code = "NO_CONTENT"
    /\ \A id \in ListingIds :
          (listings[id].present /\ listings[id].deleted) => deletedOK[id]

-----------------------------------------------------------------------------
(* Claims on the patch of updateListing *)

\* A pointer field of the patch is applied to a column: the patch value when
\* present, the stored value when absent.
PatchApplied(p, old, new) == new = (IF p.nil THEN old ELSE p.v)

\* C22: updateListing applies exactly the patch: the row it writes holds the
\* patch value of every field present in the patch (title, categories,
\* price, currency, AI fields) and the stored value of every field absent from
\* it; with an empty patch the row is the original but for updated_at.
C22_UpdateAppliesPatch ==
    [][(upc = "write" /\ upc' = "cacheDel") =>
          LET old == listings[IdOf(uid)]
              new == listings'[IdOf(uid)]
          IN  /\ PatchApplied(ureq.Title, old.title, new.title)
              /\ PatchApplied(ureq.Categories, old.categories, new.categories)
              /\ PatchApplied(ureq.PriceMinUnit, old.price, new.price)
              /\ PatchApplied(ureq.Currency, old.currency, new.currency)
              /\ PatchApplied(ureq.IsAIGenerated, old.isAiGenerated, new.isAiGenerated)
              /\ PatchApplied(ureq.AIModelName, old.aiModelName.s, new.aiModelName.s)
              /\ new.thumbnailPath = old.thumbnailPath
              /\ new.dimensionsMm = old.dimensionsMm
              /\ new.status = old.status
              /\ new.seller = old.seller]_vars

-----------------------------------------------------------------------------
(* Claims on what becomes searchable *)

\* C23: only approved listings become searchable: a listing has a document in
\* the search index only if its lifecycle state is ACTIVE, whatever index or
\* re-index event was handled for it.
C23_OnlyActiveIndexed ==
    \A id \in ListingIds :
        searchIndex[id] # NoDoc => listings[id].status = "ACTIVE"

-----------------------------------------------------------------------------
(* Claims on the read assembler *)

\* The URL has exactly one slash between the base URL and the path.
OneSlashBetween(segs, base, path) ==
    LET n == Len(TrimRightSlash(base)) IN
      /\ segs = TrimRightSlash(base) \o path
      /\ segs[n] # ""
      /\ segs[n + 1] # ""

\* C24: in a listing response, a file that is not VALID has no path; a VALID
\* MODEL file has the signed GET URL of its key; a VALID IMAGE file has
\* {publicBaseURL}/{path} with exactly one slash between base URL and path.
C24_FilePaths ==
    asm.done =>
        /\ asm.file.status # "VALID" => asm.FilePath.nil
        /\ (asm.file.status = "VALID" /\ asm.file.type = "MODEL") =>
              asm.FilePath = SignedGetURL(asm.file.path)
        /\ (asm.file.status = "VALID" /\ asm.file.type = "IMAGE") =>
              /\ ~asm.FilePath.nil
              /\ asm.FilePath.kind = "public"
              /\ OneSlashBetween(asm.FilePath.segs, asm.base, asm.file.path)

-----------------------------------------------------------------------------
(* Claims on the create / get round trip *)

\* C25: getListing of a created listing that no update has touched returns
\* the posted values of title, categories, price, currency, the AI flag and
\* model name, and the dimensions x, y and z.
C25_CreateGetRoundTrip ==
    \A g \in Gets :
        (gres[g].code = "OK" /\ gres[g].resp.id = 1 /\ gres[g].resp.ver = 0) =>
            LET resp == gres[g].resp
                req == ListedRequest
            IN  /\ resp.title = req.Title
                /\ resp.categories = req.Categories
                /\ resp.price = req.PriceMinUnit
                /\ resp.currency = req.Currency
                /\ resp.isAIGenerated = req.IsAIGenerated
                /\ resp.aiModelName.nil = req.AIModelName.nil
                /\ ~resp.dimXMM.nil /\ resp.dimXMM.v = req.Dimensions.X
                /\ ~resp.dimYMM.nil /\ resp.dimYMM.v = req.Dimensions.Y
                /\ ~resp.dimZMM.nil /\ resp.dimZMM.v = req.Dimensions.Z

-----------------------------------------------------------------------------
(* Claims on who receives a stored response *)

\* C26: a response stored under an Idempotency-Key is replayed only to a
\* request that verifies as the user whose request produced it: never to a
\* request without a valid token or with the token of another user.
C26_ReplayOnlyToOwner ==
    \A r \in Reqs :
        ireply[r].kind = "replay" =>
            /\ Bearer(r) # ""
            /\ Bearer(r) = Bearer(ireply[r].body)

-----------------------------------------------------------------------------
(* Claims on overlapping updates *)

\* C27: no lost update: the UPDATE of an updateListing call leaves every
\* field that is absent from its patch (title, price, currency, lifecycle
\* state) as it is stored at that moment, so that a change another call
\* committed after this call's fetch is still in the row.
C27_NoLostUpdate ==
    [][(upc = "write" /\ upc' = "cacheDel") =>
          LET old == listings[IdOf(uid)]
              new == listings'[IdOf(uid)]
          IN  /\ ureq.Title.nil => new.title = old.title
              /\ ureq.PriceMinUnit.nil => new.price = old.price
              /\ ureq.Currency.nil => new.currency = old.currency
              /\ new.status = old.status]_vars

-----------------------------------------------------------------------------
(* Claims on the signed URLs of getListing *)

-----------------------------------------------------------------------------
(* Claims on deleted listings in the search index *)

\* C29: once a listing that has a document in the search index has been
\* soft-deleted by its seller, the document is eventually removed from the
\* index.
C29_DeletedEventuallyUnindexed ==
    \A id \in ListingIds :
        (deletedOK[id] /\ listings[id].deleted /\ searchIndex[id] # NoDoc)
            ~> (searchIndex[id] = NoDoc)

-----------------------------------------------------------------------------
(* Claims on the web UI's publish flow *)

\* C30: the publish attempts made for one draft, retries after a network
\* failure or a CONFLICT answer included, commit at most one listing.
C30_OneListingPerDraft == Cardinality(created) <= 1
====
